---------------------------- MODULE Spec2Model ----------------------------
(***************************************************************************)
(* Model of TGDownloader's incremental export engine (channel_data.py):    *)
(* the sliding-window RateLimiter, the danger classifier, the sender alias *)
(* registry and the resumable export loop dump_dialog_to_json_and_media    *)
(* with its pause / cancel / finish-now signals.                           *)
(*                                                                         *)
(* The specifications share the variables:                                 *)
(*   SpecRate    callers of one RateLimiter over a discrete clock          *)
(*   Spec        repeated export runs of one conversation over one archive *)
(*   SpecAlias   the same over every kind of sender                        *)
(*   SpecMedia   one run over every kind of attachment and transfer result *)
(*   SpecWorker  one export command over a list of conversations, driven   *)
(*               through the Worker's request_* methods                    *)
(*   SpecCancel  the same with cancel_event set on its own                 *)
(*   SpecFault   runs in which a write of the document or the resolution   *)
(*               of a sender fails, or the process dies in a rewrite       *)
(*   SpecLoad    runs over a state document that may have been damaged     *)
(*   SpecPath    one run in which transfers return paths of every place    *)
(*   SpecNumbering  resumed runs over senders that take pseudonyms         *)
(*   SpecDisplay    resumed runs over senders of every kind                *)
(*   SpecCallback   runs whose progress, message and media callbacks raise *)
(*   SpecTitles     one command over conversations of every modelled title *)
(*   SpecStop       commands of a Worker that is sent the stop command     *)
(*   SpecUi         commands driven through request_pause, request_resume  *)
(*                  and request_finish, whose callbacks the loop runs later*)
(*   SpecWorkerLive  SpecWorker under a fair event loop                    *)
(***************************************************************************)
EXTENDS Integers, Sequences, FiniteSets, TLC

----------------------------------------------------------------------------
(* Bounds of the model *)

\* largest max_requests / time_window a RateLimiter is constructed with
MaxM == 2
MaxT == 2
\* last reading of the clock, and the number of admissions explored
MaxTime == 4
MaxAdmit == 4
\* callers of acquire()
NumCallers == 2
\* items the message source can hold, and distinct numeric sender ids
MaxMsgs == 3
NumUids == 2
\* conversations one export command can be given
MaxTargets == 2
\* callbacks that can wait for the event loop at a time
MaxScheduled == 3

VARIABLES
    \* ---- RateLimiter (channel_data.py 26-50) ----
    max_requests,   \* self.max_requests
    time_window,    \* self.time_window
    requests,       \* self.requests: deque of admission timestamps
    clock,          \* the value time.time() returns
    apc,            \* per caller: "idle" | "sleeping" (inside asyncio.sleep)
    wakeAt,         \* per caller: the clock value at which its sleep is due
    admitted,       \* history: every timestamp ever appended, in order
    overlap,        \* history: a call started while another was suspended
    exactEdge,      \* history: an entry exactly time_window old was kept
    \* ---- the archive and the message source ----
    json_exists,    \* os.path.exists(json_path)
    json_data,      \* the content of channel_messages.json
    json_form,      \* what the file holds: "list" (json_data), or a damage
    media_files,    \* files present in the media directory: <<id, part>>
    src_len,        \* number of items the source holds (it only grows)
    service,        \* indices of source items that are not Message instances
    \* ---- dump_dialog_to_json_and_media: parameters and locals ----
    pc,
    progress_every,
    skip_dangerous,
    pause_event,    \* asyncio.Event: set = running, clear = paused
    cancel_event,
    finish_requested,  \* what is_finish_requested() returns
    existing_messages,
    processed_ids,
    alias_map,
    alias_counter,
    result_messages,
    count,
    cancelled,
    pos,            \* number of items the iterator has yielded
    msg,            \* index of the loop variable's item (0: none yet)
    sender_info,
    att,            \* msg.media, from the moment msg is processed
    entry,          \* the descriptor under construction (video thumbnail)
    outcome,        \* how the last call ended: returned | CancelledError |
                    \* OSError | Exception
    events,         \* stages passed to media_event_cb for the current message
    progress_events,  \* the counts passed to on_progress in this run
    message_events, \* <<id, count>> of each summary passed to on_message
    \* ---- Worker._cmd_export (gui_app.py 262-340) ----
    export_running, \* self._export_running
    n_targets,      \* len(indices)
    target,         \* position in indices of the conversation being exported
    emitted,        \* the export_state events of the current command
    titles,         \* the titles of the conversations the command selected
    shelf,          \* the archives under the export root that are not in
                    \* view: directory name -> state document and media
    \* ---- the Worker's thread and its methods (gui_app.py 71-147, 482-520)
    command_queue,  \* self.command_queue, as far as it holds "stop"
    worker_pause_event,   \* self._export_pause_event: "None" | "Event"
    worker_cancel_event,  \* self._export_cancel_event: "None" | "Event"
    ui_pc,          \* the UI thread: "idle" | "finish_write" (in
                    \* request_finish, between its tests and line 512)
    returned,       \* what the last request_* call of the command returned
    scheduled,      \* callbacks passed to loop.call_soon_threadsafe that
                    \* the event loop has not run yet
    \* ---- faults ----
    fault,          \* "none" | "write_raises": open(json_path, "w") raises |
                    \* "crash": the process dies in the next rewrite |
                    \* "callbacks_raise": on_progress, on_message and
                    \* on_media raise an Exception whenever they are called
    \* ---- history ----
    loop_exit,      \* why the message loop ended in this run
    full_upto,      \* source position an earlier run exhausted the source at
    xfer_calls,     \* transfer primitives invoked in this run: <<id, part>>
    acquires,       \* limiter admissions obtained for the current message
    gate_cancel,    \* Len(result_messages) when cancel came in the pause gate
    sig_len,        \* Len(result_messages) when cancel/finish was first raised
    sig_msg,        \* the item being processed at that moment (0: none)
    written_before, \* the document as it was before the rewrite that crashed
    finish_hist,    \* "none" | "accepted": request_finish returned True in
                    \* this command | "started_after": and the export of a
                    \* further conversation began after that
    gate_msg,       \* the item that was pending when the run entered the
                    \* pause gate, until the loop asks for the next item
    gate_finish     \* Len(result_messages) when finish-now came in the gate

rateVars == <<max_requests, time_window, requests, clock, apc, wakeAt,
              admitted, overlap, exactEdge>>

archiveVars == <<json_exists, json_data, json_form, media_files, src_len,
                 service>>

signalVars == <<pause_event, cancel_event, finish_requested>>

runVars == <<pc, progress_every, skip_dangerous, existing_messages,
             processed_ids, alias_map, alias_counter, result_messages, count,
             cancelled, pos, msg, sender_info, att, entry, outcome, events,
             progress_events, message_events>>

dialogVars == <<titles, shelf>>

uiVars == <<command_queue, worker_pause_event, worker_cancel_event, ui_pc,
            returned, scheduled>>

workerVars == <<export_running, n_targets, target, emitted, dialogVars,
                uiVars>>

histVars == <<loop_exit, full_upto, xfer_calls, acquires, gate_cancel,
              sig_len, sig_msg, written_before, finish_hist, gate_msg,
              gate_finish>>

exportVars == <<archiveVars, signalVars, runVars, workerVars, fault, histVars>>

vars == <<rateVars, exportVars>>

Callers == 1..NumCallers

----------------------------------------------------------------------------
(* Values *)

Uids == 1..NumUids
\* the encoding of Python's None in an id field
NoId == 0
\* the id of the i-th item of the source (ids are unique and increasing)
MsgId(i) == 10 * i

\* A text is modelled by what the code asks of it: whether it starts with
\* "User" (pfx), the integer that follows when int() parses the rest (num,
\* -1 when it does not parse), and the remaining text.  f"@{username}" keeps
\* the prefix of the name it wraps in sub.
NoneStr == [pfx |-> "", sub |-> "", num |-> -1, txt |-> ""]
Plain(t) == [pfx |-> "", sub |-> "", num |-> -1, txt |-> t]
UserLabel(n) == [pfx |-> "User", sub |-> "", num |-> n, txt |-> ""]
AtHandle(u) == [pfx |-> "@", sub |-> u.pfx, num |-> u.num, txt |-> u.txt]
StartsWithUser(d) == d.pfx = "User"
ParsesAsInt(d) == d.num >= 0 /\ d.txt = ""

\* what msg.get_sender() returns: None, or an entity with id / username /
\* name (first_name and last_name joined)
NoSender == [present |-> FALSE, id |-> NoId, username |-> NoneStr, name |-> NoneStr]
Sender(uid, username, name) ==
    [present |-> TRUE, id |-> uid, username |-> username, name |-> name]

\* the senders the alias specification resolves: a senderless post, an
\* id-less and the numeric-id senders with neither handle nor name, a sender
\* with a handle, one whose name reads like a pseudonym, a named id-less one
SendersAll ==
    {NoSender}
    \cup {Sender(u, NoneStr, NoneStr) : u \in {NoId} \cup Uids}
    \cup {Sender(1, Plain("bob"), NoneStr), Sender(1, NoneStr, UserLabel(2)),
          Sender(NoId, NoneStr, Plain("Ann"))}

\* the senders the display specification resolves: those above, and senders
\* that have both a handle and a name, with and without an id
SendersDisplay ==
    SendersAll
    \cup {Sender(2, Plain("bob"), Plain("Ann")),
          Sender(NoId, Plain("bob"), Plain("Ann"))}

\* msg.media as _download_one_message_media reads it
Attachment(doc, photo, fname, mime, size, video_attr) ==
    [media |-> TRUE, doc |-> doc, photo |-> photo, fname |-> fname,
     mime |-> mime, size |-> size, video_attr |-> video_attr]
NoMedia ==
    [media |-> FALSE, doc |-> FALSE, photo |-> FALSE, fname |-> "",
     mime |-> "", size |-> 0, video_attr |-> FALSE]
Unset == [NoMedia EXCEPT !.mime = "unset"]

\* lines 58-78 (the extensions the modelled file names can carry)
DANGEROUS_EXT == {".exe", ".js", ".zip", ".gz", ".html", ".sh"}
\* lines 80-94
DANGEROUS_MIME_PREFIX ==
    {"application/x-dosexec", "application/x-msdownload",
     "application/x-ms-installer", "application/x-executable",
     "application/x-mach-binary", "application/x-sh",
     "application/x-shellscript", "text/x-python", "text/x-php",
     "text/javascript", "application/javascript", "text/html",
     "application/x-httpd-php"}
\* line 97
MAX_FILE_SIZE == 500 * 1024 * 1024

\* os.path.splitext(filename)[1] of the modelled file names
SplitextExt(f) ==
    CASE f = "a.exe" -> ".exe"
      [] f = "A.EXE" -> ".EXE"
      [] f = "notes.txt" -> ".txt"
      [] f = "data.tar.gz" -> ".gz"
      [] f = "clip.mp4" -> ".mp4"
      [] OTHER -> ""
\* str.lower() of the modelled extensions and MIME types
Lower(t) ==
    CASE t = ".EXE" -> ".exe"
      [] t = "Text/HTML; charset=utf-8" -> "text/html; charset=utf-8"
      [] OTHER -> t
\* the modelled prefixes a (lower-cased) MIME type starts with
PrefixesOf(m) ==
    CASE m = "text/html; charset=utf-8" -> {"text/html", "text/"}
      [] m = "application/x-shellscript" ->
             {"application/x-sh", "application/x-shellscript", "application/"}
      [] m = "application/pdf" -> {"application/"}
      [] m = "video/mp4" -> {"video/"}
      [] m = "image/png" -> {"image/"}
      [] OTHER -> {}

\* a photo, and a document with the given name, MIME type and size
Photo == Attachment(FALSE, TRUE, "", "", 0, FALSE)
Doc(f, m, z) == Attachment(TRUE, FALSE, f, m, z, FALSE)

\* the attachments the media specification meets: no media, a photo, media
\* that is neither photo nor document, and documents that are harmless or
\* refused for each reason alone (extension, MIME type, size), with and
\* without a declared name, and videos by MIME type and by attribute
AttsAll ==
    {NoMedia, Photo, Attachment(FALSE, FALSE, "", "", 0, FALSE),
     Doc("a.exe", "application/pdf", 10),
     Doc("A.EXE", "application/pdf", 10),
     Doc("data.tar.gz", "", 10),
     Doc("notes.txt", "application/pdf", 10),
     Doc("", "image/png", 10),
     Doc("", "Text/HTML; charset=utf-8", 10),
     Doc("notes.txt", "application/x-shellscript", 10),
     Doc("", "application/pdf", MAX_FILE_SIZE),
     Doc("notes.txt", "application/pdf", MAX_FILE_SIZE + 1),
     Doc("", "", MAX_FILE_SIZE + 1),
     Attachment(TRUE, FALSE, "clip.mp4", "video/mp4", 10, FALSE),
     Attachment(TRUE, FALSE, "", "application/pdf", 10, TRUE)}

----------------------------------------------------------------------------
(* Pure functions of channel_data.py *)

\* a classifier that refuses a file of exactly the maximum size
IsDangerousFromMaxSize(doc, filename) ==
    LET fn_ext == IF filename # "" THEN Lower(SplitextExt(filename)) ELSE ""
        mime == Lower(doc.mime)
    IN \/ fn_ext \in DANGEROUS_EXT
       \/ PrefixesOf(mime) \cap DANGEROUS_MIME_PREFIX # {}
       \/ doc.size >= MAX_FILE_SIZE

\* lines 187-207
_is_dangerous(doc, filename) ==
    LET fn_ext == IF filename # "" THEN Lower(SplitextExt(filename)) ELSE ""
        mime == Lower(doc.mime)
    IN \/ fn_ext \in DANGEROUS_EXT
       \/ PrefixesOf(mime) \cap DANGEROUS_MIME_PREFIX # {}
       \/ doc.size > MAX_FILE_SIZE

\* lines 247-256: the first DocumentAttributeFilename with a file name
FilenameHint(a) == IF a.doc THEN a.fname ELSE ""

\* lines 258-269 and 345-354: the kind a document's attributes declare
DocKind(a) ==
    IF a.video_attr THEN "video"
    ELSE IF "video/" \in PrefixesOf(Lower(a.mime)) THEN "video"
    ELSE IF "image/" \in PrefixesOf(Lower(a.mime)) THEN "image"
    ELSE "file"

\* lines 258-269
KindGuess(a) ==
    IF a.doc THEN DocKind(a) ELSE IF a.photo THEN "image" ELSE "file"

\* the extension of the path download_media returns for a non-document
RealExt(a) == IF a.photo THEN ".jpg" ELSE ".dat"

\* lines 345-357
FinalKind(a) ==
    IF a.doc THEN DocKind(a)
    ELSE IF RealExt(a) \in {".jpg", ".jpeg", ".png", ".gif", ".webp", ".bmp"}
         THEN "image"
         ELSE KindGuess(a)

\* line 272 with a classifier that looks at the extension alone
ShouldBlockByExtensionOnly(a, skip) ==
    a.doc /\ skip /\ FilenameHint(a) # ""
    /\ Lower(SplitextExt(FilenameHint(a))) \in DANGEROUS_EXT

\* line 272: the attachment is refused before any transfer
ShouldBlock(a, skip) == a.doc /\ skip /\ _is_dangerous(a, FilenameHint(a))

\* lines 273-279
BlockedDescriptor(a) ==
    [kind |-> "blocked",
     name |-> IF FilenameHint(a) # "" THEN FilenameHint(a) ELSE "file",
     reason |-> "dangerous-file-blocked"]

\* lines 334-338
SymlinkDescriptor(a, id) ==
    [kind |-> "blocked",
     name |-> IF FilenameHint(a) # "" THEN FilenameHint(a) ELSE "message_id",
     reason |-> "symlink-blocked"]

\* lines 341-359: the path is the file download_media wrote for message id
MediaEntry(a, id) ==
    [kind |-> FinalKind(a), path |-> id,
     name |-> IF FilenameHint(a) # "" THEN FilenameHint(a) ELSE "basename"]

\* line 374
WithThumb(e, id) ==
    [kind |-> e.kind, path |-> e.path, name |-> e.name, thumb |-> id]

NoEntry == [kind |-> "none", path |-> 0, name |-> ""]

Max(a, b) == IF a >= b THEN a ELSE b

NoInfo == [id |-> NoId, username |-> NoneStr, name |-> NoneStr, display |-> NoneStr]

\* a display that prefers the name to the handle
MakeSenderDisplayNameFirst(sender, amap, acnt) ==
    IF ~sender.present
    THEN [info |-> [id |-> NoId, username |-> NoneStr, name |-> NoneStr,
                    display |-> Plain("Channel")],
          map |-> amap, counter |-> acnt]
    ELSE LET uid == sender.id
             mk(display, m, c) ==
                 [info |-> [id |-> uid, username |-> sender.username,
                            name |-> sender.name, display |-> display],
                  map |-> m, counter |-> c]
         IN IF sender.name # NoneStr
            THEN mk(sender.name, amap, acnt)
            ELSE IF sender.username # NoneStr
            THEN mk(AtHandle(sender.username), amap, acnt)
            ELSE IF uid = NoId
            THEN LET c == [acnt EXCEPT !.noid = @ + 1]
                 IN mk(UserLabel(c.noid), amap, c)
            ELSE IF amap[uid] = NoneStr
            THEN LET c == [acnt EXCEPT !.uid = @ + 1]
                     m == [amap EXCEPT ![uid] = UserLabel(c.uid)]
                 IN mk(m[uid], m, c)
            ELSE mk(amap[uid], amap, acnt)

\* a registry that hands every id-less sender the label of the last one
MakeSenderDisplaySharingNoId(sender, amap, acnt) ==
    IF ~sender.present
    THEN [info |-> [id |-> NoId, username |-> NoneStr, name |-> NoneStr,
                    display |-> Plain("Channel")],
          map |-> amap, counter |-> acnt]
    ELSE LET uid == sender.id
             mk(display, m, c) ==
                 [info |-> [id |-> uid, username |-> sender.username,
                            name |-> sender.name, display |-> display],
                  map |-> m, counter |-> c]
         IN IF sender.username # NoneStr
            THEN mk(AtHandle(sender.username), amap, acnt)
            ELSE IF sender.name # NoneStr
            THEN mk(sender.name, amap, acnt)
            ELSE IF uid = NoId
            THEN LET c == [acnt EXCEPT !.noid = Max(@, 1)]
                 IN mk(UserLabel(c.noid), amap, c)
            ELSE IF amap[uid] = NoneStr
            THEN LET c == [acnt EXCEPT !.uid = @ + 1]
                     m == [amap EXCEPT ![uid] = UserLabel(c.uid)]
                 IN mk(m[uid], m, c)
            ELSE mk(amap[uid], amap, acnt)

\* _make_sender_display: the returned dict, and the alias map and counters
\* as the call leaves them
_make_sender_display(sender, amap, acnt) ==
    IF ~sender.present
    THEN [info |-> [id |-> NoId, username |-> NoneStr, name |-> NoneStr,
                    display |-> Plain("Channel")],
          map |-> amap, counter |-> acnt]
    ELSE LET uid == sender.id
             mk(display, m, c) ==
                 [info |-> [id |-> uid, username |-> sender.username,
                            name |-> sender.name, display |-> display],
                  map |-> m, counter |-> c]
         IN IF sender.username # NoneStr
            THEN mk(AtHandle(sender.username), amap, acnt)
            ELSE IF sender.name # NoneStr
            THEN mk(sender.name, amap, acnt)
            ELSE IF uid = NoId
            THEN LET c == [acnt EXCEPT !.noid = @ + 1]
                 IN mk(UserLabel(c.noid), amap, c)
            ELSE IF amap[uid] = NoneStr
            THEN LET c == [acnt EXCEPT !.uid = @ + 1]
                     m == [amap EXCEPT ![uid] = UserLabel(c.uid)]
                 IN mk(m[uid], m, c)
            ELSE mk(amap[uid], amap, acnt)

EmptyAliasMap == [u \in Uids |-> NoneStr]
EmptyCounter == [uid |-> 0, noid |-> 0]

\* the loop over existing_messages without line 468: no id is remembered
ScanRecordForgettingIds(st, m) ==
    LET uid == m.from.id
        display == m.from.display
    IN [ids |-> st.ids,
        map |-> IF uid # NoId /\ StartsWithUser(display)
                THEN [st.map EXCEPT ![uid] = display]
                ELSE st.map,
        counter |->
            IF StartsWithUser(display) /\ ParsesAsInt(display)
            THEN IF uid # NoId
                 THEN [st.counter EXCEPT !.uid = Max(@, display.num)]
                 ELSE [st.counter EXCEPT !.noid = Max(@, display.num)]
            ELSE st.counter]

\* the loop over existing_messages without lines 474-484: the counters are
\* not rebuilt
ScanRecordWithoutCounters(st, m) ==
    LET uid == m.from.id
        display == m.from.display
    IN [ids |-> st.ids \cup {m.id},
        map |-> IF uid # NoId /\ StartsWithUser(display)
                THEN [st.map EXCEPT ![uid] = display]
                ELSE st.map,
        counter |-> st.counter]

\* lines 465-484: one iteration of the loop over existing_messages
ScanRecord(st, m) ==
    LET uid == m.from.id
        display == m.from.display
    IN [ids |-> st.ids \cup {m.id},
        map |-> IF uid # NoId /\ StartsWithUser(display)
                THEN [st.map EXCEPT ![uid] = display]
                ELSE st.map,
        counter |->
            IF StartsWithUser(display) /\ ParsesAsInt(display)
            THEN IF uid # NoId
                 THEN [st.counter EXCEPT !.uid = Max(@, display.num)]
                 ELSE [st.counter EXCEPT !.noid = Max(@, display.num)]
            ELSE st.counter]

\* lines 465-484: processed_ids, alias_map and alias_counter after the loop
RECURSIVE ScanExisting(_, _)
ScanExisting(st, msgs) ==
    IF msgs = <<>> THEN st
    ELSE ScanExisting(ScanRecord(st, Head(msgs)), Tail(msgs))

\* a load that takes whatever records the file's text holds
LoadExistingWithoutFormCheck ==
    IF json_exists THEN json_data ELSE <<>>

\* lines 454-463: json.load of a document the program wrote gives back the
\* list of dicts; a file that cannot be read or parsed (the except clause),
\* or whose value is not a list, leaves existing_messages empty
LoadExisting ==
    IF json_exists /\ json_form = "list" THEN json_data ELSE <<>>

Ids(recs) == {recs[i].id : i \in 1..Len(recs)}

----------------------------------------------------------------------------
(* The archive directory of a conversation *)

\* A title is the sequence of its characters; "NUL" stands for the
\* character \x00.
Whitespace == {" ", "\t"}
\* the character class of line 125, as far as the modelled titles go
Forbidden == {"\\", "/", ":", "*", "?", "\"", "<", ">", "|", "\t", "NUL"}

RECURSIVE LStrip(_)
LStrip(s) ==
    IF s # <<>> /\ Head(s) \in Whitespace THEN LStrip(Tail(s)) ELSE s
RECURSIVE RStrip(_)
RStrip(s) ==
    IF s # <<>> /\ s[Len(s)] \in Whitespace
    THEN RStrip(SubSeq(s, 1, Len(s) - 1)) ELSE s
\* line 119: str.strip()
Strip(s) == RStrip(LStrip(s))

\* line 122: s.replace('\x00', '')
NotNul(c) == c # "NUL"
DropNul(s) == SelectSeq(s, NotNul)

\* line 125: every character of the class becomes "_"
RECURSIVE SubForbidden(_)
SubForbidden(s) ==
    IF s = <<>> THEN s
    ELSE <<IF Head(s) \in Forbidden THEN "_" ELSE Head(s)>>
            \o SubForbidden(Tail(s))

\* line 128: s.replace('..', '_'), from the left and without overlap
RECURSIVE ReplaceDotDot(_)
ReplaceDotDot(s) ==
    IF Len(s) < 2 THEN s
    ELSE IF s[1] = "." /\ s[2] = "."
    THEN <<"_">> \o ReplaceDotDot(SubSeq(s, 3, Len(s)))
    ELSE <<s[1]>> \o ReplaceDotDot(Tail(s))

RECURSIVE DropDots(_)
DropDots(s) == IF s # <<>> /\ Head(s) = "." THEN DropDots(Tail(s)) ELSE s
\* line 129: re.sub(r'\.{2,}', '_', s)
RECURSIVE SubDotRuns(_)
SubDotRuns(s) ==
    IF Len(s) < 2 THEN s
    ELSE IF s[1] = "." /\ s[2] = "."
    THEN <<"_">> \o SubDotRuns(DropDots(s))
    ELSE <<s[1]>> \o SubDotRuns(Tail(s))

\* line 132: re.sub(r'\s+', ' ', s)
RECURSIVE CollapseSpaces(_)
CollapseSpaces(s) ==
    IF s = <<>> THEN s
    ELSE IF Head(s) \in Whitespace
    THEN <<" ">> \o CollapseSpaces(LStrip(s))
    ELSE <<Head(s)>> \o CollapseSpaces(Tail(s))

\* lines 135-136
Unhide(s) == IF s # <<>> /\ s[1] = "." THEN <<"_">> \o Tail(s) ELSE s

\* os.path.splitext of a name without separators: <<root, ext>>
SplitextSeq(s) ==
    LET dots == {i \in 1..Len(s) : s[i] = "."}
        last == IF dots = {} THEN 0
                ELSE CHOOSE i \in dots : \A j \in dots : j <= i
    IN IF last > 1 /\ \E j \in 1..(last - 1) : s[j] # "."
       THEN <<SubSeq(s, 1, last - 1), SubSeq(s, last, Len(s))>>
       ELSE <<s, <<>>>>

\* lines 139-142: the length limit
NameLimit == 200
Limit(s) ==
    IF Len(s) > NameLimit
    THEN LET p == SplitextSeq(s)
         IN SubSeq(p[1], 1, NameLimit - Len(p[2])) \o p[2]
    ELSE s

\* lines 114-144
_safe_name(s, fallback) ==
    IF s = <<>> THEN fallback
    ELSE LET r == Limit(Unhide(CollapseSpaces(SubDotRuns(ReplaceDotDot(
                      SubForbidden(DropNul(Strip(s))))))))
         IN IF r = <<>> THEN fallback ELSE r

Untitled ==
    <<"U", "n", "t", "i", "t", "l", "e", "d", " ", "d", "i", "a", "l", "o", "g">>
\* line 440: the title of the dialog's entity (its title, else its first or
\* last name), or "Untitled dialog" when it has none
DialogTitle(t) == IF t = <<>> THEN Untitled ELSE t

\* the title of the i-th conversation of a command whose conversations all
\* have titles of their own
RECURSIVE Chat(_)
Chat(i) == IF i = 0 THEN <<>> ELSE Append(Chat(i - 1), "c")
Chats(n) == [i \in 1..n |-> Chat(i)]

\* the titles the title specification gives its conversations: two that
\* differ in a character a file name cannot hold, a plain one, the same
\* surrounded by blanks, and a conversation without title or name
TitlesModelled ==
    {<<"a", "/", "b">>, <<"a", ":", "b">>, <<"a", "b">>,
     <<" ", "a", "b", " ">>, <<>>}

\* every title a conversation of the model can have
Titles == TitlesModelled \cup {Chat(i) : i \in 1..MaxTargets}

\* lines 441-443: the name of each conversation's directory under out_root,
\* computed once for every title
ExportDirs ==
    [t \in Titles |-> _safe_name(DialogTitle(t), <<"d", "i", "a", "l", "o", "g">>)]
ExportDir(t) == ExportDirs[t]

\* the conversations a command can select, by their titles: the dialogs
\* of an account are distinct entities whatever their titles are
TitleLists ==
    UNION {[1..n -> TitlesModelled] : n \in 1..MaxTargets}

\* the directories an export root can hold
Dirs == {ExportDir(t) : t \in Titles}

\* what a directory holds: the state document and the media files
NoArchive == [exists |-> FALSE, data |-> <<>>, form |-> "list", media |-> {}]

----------------------------------------------------------------------------
(* RateLimiter *)

\* lines 38-39 / 47-48: popleft while requests[0] < now - time_window
RECURSIVE Evict(_, _)
Evict(q, limit) ==
    IF q # <<>> /\ Head(q) < limit THEN Evict(Tail(q), limit) ELSE q

\* an entry of age exactly time_window survives the eviction
KeepsEdge(q, now) == q # <<>> /\ Head(q) = now - time_window

\* no request_* method has been called in the command
NoCall == [call |-> "none", value |-> "None"]

\* the archive before the first export, with no run in progress
ExportIdle ==
    /\ json_exists = FALSE
    /\ json_data = <<>>
    /\ json_form = "list"
    /\ media_files = {}
    /\ src_len = 0
    /\ pc = "idle"
    /\ events = <<>>
    /\ progress_events = <<>>
    /\ message_events = <<>>
    /\ gate_msg = 0
    /\ gate_finish = -1
    /\ export_running = FALSE
    /\ titles = <<>>
    /\ shelf = [d \in Dirs |-> NoArchive]
    /\ command_queue = <<>>
    /\ worker_pause_event = "None"
    /\ worker_cancel_event = "None"
    /\ ui_pc = "idle"
    /\ returned = NoCall
    /\ scheduled = <<>>
    /\ n_targets = 0
    /\ target = 0
    /\ emitted = <<>>
    /\ fault = "none"
    /\ written_before = <<>>
    /\ finish_hist = "none"
    /\ progress_every = 0
    /\ skip_dangerous = TRUE
    /\ pause_event = TRUE
    /\ cancel_event = FALSE
    /\ finish_requested = FALSE
    /\ existing_messages = <<>>
    /\ processed_ids = {}
    /\ alias_map = EmptyAliasMap
    /\ alias_counter = EmptyCounter
    /\ result_messages = <<>>
    /\ count = 0
    /\ cancelled = FALSE
    /\ pos = 0
    /\ msg = 0
    /\ sender_info = NoInfo
    /\ att = Unset
    /\ entry = NoEntry
    /\ outcome = "none"
    /\ loop_exit = "none"
    /\ full_upto = 0
    /\ xfer_calls = {}
    /\ acquires = 0
    /\ gate_cancel = -1
    /\ sig_len = -1
    /\ sig_msg = 0

\* __init__: the limiter is constructed with its two parameters
RateInit ==
    /\ ExportIdle
    /\ service = {}
    /\ max_requests \in 1..MaxM
    /\ time_window \in 1..MaxT
    /\ requests = <<>>
    /\ clock = 0
    /\ apc = [c \in Callers |-> "idle"]
    /\ wakeAt = [c \in Callers |-> 0]
    /\ admitted = <<>>
    /\ overlap = FALSE
    /\ exactEdge = FALSE

\* line 50: self.requests.append(now)
Admit(q, now) ==
    /\ requests' = Append(q, now)
    /\ admitted' = Append(admitted, now)

\* acquire() from its entry to its return or to its await (lines 36-45, 50)
AcquireCall(c) ==
    /\ apc[c] = "idle"
    /\ Len(admitted) < MaxAdmit
    /\ LET now == clock
           q == Evict(requests, now - time_window)
           sleep_time == IF q # <<>> THEN Head(q) + time_window - now ELSE 0
       IN /\ overlap' = (overlap \/ \E d \in Callers \ {c} : apc[d] = "sleeping")
          /\ exactEdge' = (exactEdge \/ KeepsEdge(q, now))
          /\ IF Len(q) >= max_requests /\ sleep_time > 0
             THEN /\ requests' = q
                  /\ apc' = [apc EXCEPT ![c] = "sleeping"]
                  /\ wakeAt' = [wakeAt EXCEPT ![c] = now + sleep_time]
                  /\ UNCHANGED admitted
             ELSE /\ Admit(q, now)
                  /\ UNCHANGED <<apc, wakeAt>>
    /\ UNCHANGED <<max_requests, time_window, clock, exportVars>>

\* acquire() from the return of asyncio.sleep to its return (lines 46-50)
AcquireWake(c) ==
    /\ apc[c] = "sleeping"
    /\ clock >= wakeAt[c]
    /\ LET now == clock
           q == Evict(requests, now - time_window)
       IN /\ exactEdge' = (exactEdge \/ KeepsEdge(q, now))
          /\ Admit(q, now)
    /\ apc' = [apc EXCEPT ![c] = "idle"]
    /\ UNCHANGED <<max_requests, time_window, clock, wakeAt, overlap,
                   exportVars>>

\* time passes
Tick ==
    /\ clock < MaxTime
    /\ clock' = clock + 1
    /\ UNCHANGED <<max_requests, time_window, requests, apc, wakeAt,
                   admitted, overlap, exactEdge, exportVars>>

RateNext ==
    \/ \E c \in Callers : AcquireCall(c)
    \/ \E c \in Callers : AcquireWake(c)
    \/ Tick

SpecRate == RateInit /\ [][RateNext]_vars

\* admissions whose timestamp lies in the trailing window (t - T, t]
InWindow(t) ==
    {i \in 1..Len(admitted) :
        admitted[i] > t - time_window /\ admitted[i] <= t}

RateBound == \A t \in 0..clock : Cardinality(InWindow(t)) <= max_requests

\* C5: with acquire() calls issued one at a time, every trailing window of
\* time_window seconds holds at most max_requests admissions.
C5_RateBoundSequential == (~overlap) => RateBound

\* C6: with concurrent callers the admissions are serialized: no trailing
\* window of time_window seconds ever holds more than max_requests
\* admissions (stated for runs in which no entry sat exactly on the window
\* edge, so that only the interleaving decides).
C6_RateBoundConcurrent == (~exactEdge) => RateBound

\* the timestamps of the queue are in non-decreasing order
TimeOrdered(q) == \A i \in 1..(Len(q) - 1) : q[i] <= q[i + 1]

\* no call of acquire() is suspended in its sleep
AllReturned == \A c \in Callers : apc[c] = "idle"

\* C38: with acquire() calls issued one at a time, whenever a call has
\* returned the queue of recorded timestamps holds at most max_requests
\* entries, in non-decreasing order, the calls made when the oldest entry
\* is exactly time_window seconds old included.
C38_QueueBounded ==
    (~overlap /\ AllReturned) =>
        (Len(requests) <= max_requests /\ TimeOrdered(requests))

\* the same away from the window's edge, and the order alone
QueueBoundedOffEdge ==
    (~overlap /\ ~exactEdge /\ AllReturned) => Len(requests) <= max_requests
QueueTimeOrdered == TimeOrdered(requests)

----------------------------------------------------------------------------
(* dump_dialog_to_json_and_media: one export run of the conversation *)

\* the process-wide limiter as line 53 constructs it; its timing is the
\* subject of SpecRate and stays out of the export runs
LimiterAtRest ==
    /\ max_requests = 5
    /\ time_window = 10
    /\ requests = <<>>
    /\ clock = 0
    /\ apc = [c \in Callers |-> "idle"]
    /\ wakeAt = [c \in Callers |-> 0]
    /\ admitted = <<>>
    /\ overlap = FALSE
    /\ exactEdge = FALSE

Init ==
    /\ ExportIdle
    /\ service \in {S \in SUBSET (1..MaxMsgs) : Cardinality(S) <= 1}
    /\ LimiterAtRest

\* the points where the coroutine is suspended and the event loop can run
\* the callbacks that set or clear the asyncio events
AwaitPcs ==
    {"iter", "gate_sleep", "sender", "acquire", "transfer", "thumb_acquire",
     "thumb_transfer"}
\* sender resolution or a transfer of the current message is underway
ProcessingPcs ==
    {"sender", "acquire", "transfer", "thumb_acquire", "thumb_transfer"}
\* request_finish, line 507: an export command is in progress
Running == export_running /\ pc # "crashed"

\* the caller-supplied callbacks raise
CallbacksRaise == fault = "callbacks_raise"

\* a call of a callback with no handler around it
Unguarded(raises) == IF raises THEN "propagated" ELSE "returned"

\* try: callback(...) except Exception: log (lines 241-244, 494-497,
\* 551-560, 567-570, 575-578): how the call ends for the function around it
Guarded(raises) == IF raises THEN "caught" ELSE "returned"

\* a rewrite whose failure is swallowed: the function goes on without it
RewriteSwallowingError(msgs, then_pc, then_outcome) ==
    CASE fault \in {"none", "callbacks_raise"} ->
            /\ json_data' = msgs
            /\ json_form' = "list"
            /\ progress_events' = Append(progress_events, count')
            /\ IF Guarded(CallbacksRaise) = "propagated"
               THEN pc' = "done" /\ outcome' = "Exception"
               ELSE pc' = then_pc /\ outcome' = then_outcome
            /\ UNCHANGED written_before
      [] fault = "write_raises" ->
            /\ pc' = then_pc
            /\ outcome' = then_outcome
            /\ UNCHANGED <<json_data, json_form, written_before,
                           progress_events>>
      [] fault = "crash" ->
            /\ pc' = "crashed"
            /\ written_before' = json_data
            /\ \E f \in {"empty", "truncated", "list"} :
                  /\ json_form' = f
                  /\ json_data' = IF f = "list" THEN msgs ELSE <<>>
            /\ UNCHANGED <<outcome, progress_events>>

\* with open(json_path, "w") as f: json.dump(msgs, f): the file is truncated
\* when it is opened and filled as the dump proceeds.  When the write
\* succeeds on_progress is called with the count, an Exception it raises is
\* caught, and the function goes on at then_pc; when open raises, the error leaves the function; when the
\* process dies in the rewrite the file holds nothing, a prefix of the new
\* text, or all of it
Rewrite(msgs, then_pc, then_outcome) ==
    CASE fault \in {"none", "callbacks_raise"} ->
            /\ json_data' = msgs
            /\ json_form' = "list"
            /\ progress_events' = Append(progress_events, count')
            /\ IF Guarded(CallbacksRaise) = "propagated"
               THEN pc' = "done" /\ outcome' = "Exception"
               ELSE pc' = then_pc /\ outcome' = then_outcome
            /\ UNCHANGED written_before
      [] fault = "write_raises" ->
            /\ pc' = "done"
            /\ outcome' = "OSError"
            /\ UNCHANGED <<json_data, json_form, written_before,
                           progress_events>>
      [] fault = "crash" ->
            /\ pc' = "crashed"
            /\ written_before' = json_data
            /\ \E f \in {"empty", "truncated", "list"} :
                  /\ json_form' = f
                  /\ json_data' = IF f = "list" THEN msgs ELSE <<>>
            /\ UNCHANGED <<outcome, progress_events>>

\* lines 439-499: the function from its entry to its first await
StartRun(pe, sd) ==
    /\ LET existing == LoadExisting
           scan == ScanExisting([ids |-> {}, map |-> EmptyAliasMap,
                                 counter |-> EmptyCounter], existing)
       IN /\ existing_messages' = existing
          /\ processed_ids' = scan.ids
          /\ alias_map' = scan.map
          /\ alias_counter' = scan.counter
          /\ result_messages' = existing
          /\ count' = Len(existing)
          /\ IF json_exists \/ fault # "write_raises"
             THEN \* lines 493-497: the initial call of on_progress
                  /\ progress_events' = <<Len(existing)>>
                  /\ IF Guarded(CallbacksRaise) = "propagated"
                     THEN pc' = "done" /\ outcome' = "Exception"
                     ELSE pc' = "iter" /\ outcome' = "none"
             ELSE /\ pc' = "done"
                  /\ outcome' = "OSError"
                  /\ progress_events' = <<>>
          /\ IF json_exists \/ fault = "write_raises"
             THEN UNCHANGED <<json_exists, json_data, json_form>>
             ELSE /\ json_exists' = TRUE
                  /\ json_data' = existing
                  /\ json_form' = "list"
    /\ progress_every' = pe
    /\ skip_dangerous' = sd
    /\ cancelled' = FALSE
    /\ pos' = 0
    /\ msg' = 0
    /\ sender_info' = NoInfo
    /\ att' = Unset
    /\ entry' = NoEntry
    /\ events' = <<>>
    /\ message_events' = <<>>
    /\ gate_msg' = 0
    /\ gate_finish' = -1
    /\ full_upto' = IF loop_exit = "exhausted" THEN Max(full_upto, pos)
                    ELSE full_upto
    /\ loop_exit' = "none"
    /\ xfer_calls' = {}
    /\ acquires' = 0
    /\ gate_cancel' = -1
    /\ sig_len' = -1
    /\ sig_msg' = 0
    /\ UNCHANGED <<media_files, src_len, service, fault, written_before,
                   rateVars>>

\* Worker._thread_main takes an export command from its queue, and
\* Worker._cmd_export runs, lines 270-307, into the export of the first of
\* the selected conversations, whose titles are ts.  The archive in view is
\* the directory of that conversation: a command that follows another
\* exports the conversation in view again.
CmdExportOf(ts, pe, sd) ==
    /\ pc \in {"idle", "done"}
    /\ ~export_running
    /\ command_queue = <<>>
    /\ IF target = 0 THEN TRUE
       ELSE Len(ts) = 1 /\ ExportDir(ts[1]) = ExportDir(titles[target])
    /\ pause_event' = TRUE
    /\ cancel_event' = FALSE
    /\ finish_requested' = FALSE
    /\ worker_pause_event' = "Event"
    /\ worker_cancel_event' = "Event"
    /\ export_running' = TRUE
    /\ titles' = ts
    /\ n_targets' = Len(ts)
    /\ target' = 1
    /\ emitted' = <<"running">>
    /\ returned' = NoCall
    /\ finish_hist' = "none"
    /\ UNCHANGED <<shelf, command_queue, ui_pc, scheduled>>
    /\ StartRun(pe, sd)

\* the command for n conversations whose titles give n directories
CmdExport(n, pe, sd) == CmdExportOf(Chats(n), pe, sd)

\* lines 288-307: the export of the next selected conversation begins
NextTarget ==
    /\ pc = "between"
    /\ target' = target + 1
    /\ finish_hist' = IF finish_requested THEN "started_after" ELSE finish_hist
    /\ UNCHANGED <<signalVars, export_running, n_targets, emitted,
                   dialogVars, uiVars>>
    /\ StartRun(progress_every, skip_dangerous)

\* line 501: the iterator yields the next item, or is exhausted
IterNext ==
    /\ pc = "iter"
    /\ gate_msg' = 0
    /\ IF pos < src_len
       THEN /\ pos' = pos + 1
            /\ msg' = pos + 1
            /\ att' = Unset
            /\ events' = <<>>
            /\ pc' = "chk"
            /\ UNCHANGED loop_exit
       ELSE /\ pc' = "final"
            /\ loop_exit' = "exhausted"
            /\ UNCHANGED <<pos, msg, att, events>>
    /\ UNCHANGED <<archiveVars, signalVars, progress_every, skip_dangerous,
                   existing_messages, processed_ids, alias_map, alias_counter,
                   result_messages, count, cancelled, sender_info, entry,
                   outcome, workerVars, fault, full_upto, xfer_calls, acquires,
                   gate_cancel, sig_len, sig_msg, written_before, finish_hist,
                   progress_events, message_events, gate_finish, rateVars>>

\* what every step of the loop's control part leaves alone
ControlFrame ==
    UNCHANGED <<archiveVars, signalVars, progress_every, skip_dangerous,
                existing_messages, processed_ids, alias_map, alias_counter,
                result_messages, count, pos, msg, sender_info, att, entry,
                outcome, events, workerVars, fault, full_upto, xfer_calls,
                acquires, gate_cancel, sig_len, sig_msg, written_before,
                finish_hist, progress_events, message_events, gate_finish,
                rateVars>>

\* lines 502-509: the checkpoint before a new message
Checkpoint ==
    /\ pc = "chk"
    /\ IF finish_requested
       THEN pc' = "final" /\ loop_exit' = "finish" /\ UNCHANGED cancelled
       ELSE IF cancel_event
       THEN pc' = "final" /\ loop_exit' = "cancel" /\ cancelled' = TRUE
       ELSE IF pause_event
       THEN pc' = "post" /\ UNCHANGED <<loop_exit, cancelled>>
       ELSE pc' = "gate_fin" /\ UNCHANGED <<loop_exit, cancelled>>
    /\ gate_msg' = IF pc' = "gate_fin" THEN msg ELSE gate_msg
    /\ ControlFrame

\* a pause gate that does not look at the finish-now flag
GateFinishIgnoringFlag ==
    /\ pc = "gate_fin"
    /\ pc' = "gate_sleep"
    /\ UNCHANGED <<loop_exit, cancelled, gate_msg>>
    /\ ControlFrame

\* lines 512-514: inside the pause gate, finish-now ends the wait
GateFinish ==
    /\ pc = "gate_fin"
    /\ pc' = IF finish_requested THEN "post" ELSE "gate_sleep"
    /\ UNCHANGED <<loop_exit, cancelled, gate_msg>>
    /\ ControlFrame

\* a gate that, once the pause is lifted, asks for the next item
GateWakeSkippingPending ==
    /\ pc = "gate_sleep"
    /\ IF pause_event
       THEN pc' = "iter" /\ UNCHANGED cancelled
       ELSE IF cancel_event
       THEN pc' = "post" /\ cancelled' = TRUE
       ELSE pc' = "gate_fin" /\ UNCHANGED cancelled
    /\ UNCHANGED <<loop_exit, gate_msg>>
    /\ ControlFrame

\* lines 514, 508-511: asyncio.sleep(0.1) returns and the gate is polled
GateWake ==
    /\ pc = "gate_sleep"
    /\ IF pause_event
       THEN pc' = "post" /\ UNCHANGED cancelled
       ELSE IF cancel_event
       THEN pc' = "post" /\ cancelled' = TRUE
       ELSE pc' = "gate_fin" /\ UNCHANGED cancelled
    /\ UNCHANGED <<loop_exit, gate_msg>>
    /\ ControlFrame

\* lines 515-521 without the membership test of line 520
PostGateWithoutDedup ==
    /\ pc = "post"
    /\ IF cancelled \/ finish_requested
       THEN pc' = "final" /\ loop_exit' = (IF cancelled THEN "cancel" ELSE "finish")
       ELSE IF msg \in service
       THEN pc' = "iter" /\ UNCHANGED loop_exit
       ELSE pc' = "sender" /\ UNCHANGED loop_exit
    /\ UNCHANGED <<cancelled, gate_msg>>
    /\ ControlFrame

\* lines 515-521 where a message whose id is known is fetched again
PostGateRefetchingDuplicates ==
    /\ pc = "post"
    /\ IF cancelled \/ finish_requested
       THEN pc' = "final" /\ loop_exit' = (IF cancelled THEN "cancel" ELSE "finish")
       ELSE IF msg \in service
       THEN pc' = "iter" /\ UNCHANGED loop_exit
       ELSE IF MsgId(msg) \in processed_ids
       THEN pc' = "sender" /\ UNCHANGED loop_exit
       ELSE pc' = "sender" /\ UNCHANGED loop_exit
    /\ UNCHANGED <<cancelled, gate_msg>>
    /\ ControlFrame

\* line 515 with "cancelled" left out of the test
PostGateIgnoringCancelled ==
    /\ pc = "post"
    /\ IF finish_requested
       THEN pc' = "final" /\ loop_exit' = "finish"
       ELSE IF msg \in service \/ MsgId(msg) \in processed_ids
       THEN pc' = "iter" /\ UNCHANGED loop_exit
       ELSE pc' = "sender" /\ UNCHANGED loop_exit
    /\ UNCHANGED <<cancelled, gate_msg>>
    /\ ControlFrame

\* lines 515-521: leave the loop, skip the item, or start processing it
PostGate ==
    /\ pc = "post"
    /\ IF cancelled \/ finish_requested
       THEN pc' = "final" /\ loop_exit' = (IF cancelled THEN "cancel" ELSE "finish")
       ELSE IF msg \in service \/ MsgId(msg) \in processed_ids
       THEN pc' = "iter" /\ UNCHANGED loop_exit
       ELSE pc' = "sender" /\ UNCHANGED loop_exit
    /\ UNCHANGED <<cancelled, gate_msg>>
    /\ ControlFrame

\* a loop without the periodic rewrite
PeriodicFlushNever(n, msgs) ==
    /\ pc' = "iter"
    /\ UNCHANGED <<json_data, json_form, written_before, outcome,
                   progress_events>>

\* lines 562-564: the periodic rewrite of the state document, after which
\* the loop goes on to the next item
PeriodicFlush(n, msgs) ==
    IF progress_every # 0 /\ n % progress_every = 0
    THEN Rewrite(msgs, "iter", outcome)
    ELSE /\ pc' = "iter"
         /\ UNCHANGED <<json_data, json_form, written_before, outcome,
                        progress_events>>

\* an append that puts the new record in front of the others
AppendRecordAtFront(info, items) ==
    LET item == [id |-> MsgId(msg), from |-> info, media |-> items]
    IN /\ result_messages' = <<item>> \o result_messages
       /\ processed_ids' = processed_ids \cup {item.id}
       /\ count' = count + 1
       /\ message_events' = Append(message_events, <<item.id, count + 1>>)
       /\ PeriodicFlush(count + 1, <<item>> \o result_messages)

\* an append whose summary counts the records of this run only
AppendRecordCountingNewOnly(info, items) ==
    LET item == [id |-> MsgId(msg), from |-> info, media |-> items]
    IN /\ result_messages' = Append(result_messages, item)
       /\ processed_ids' = processed_ids \cup {item.id}
       /\ count' = count + 1
       /\ message_events' =
             Append(message_events,
                    <<item.id, count + 1 - Len(existing_messages)>>)
       /\ PeriodicFlush(count + 1, Append(result_messages, item))

\* lines 526-570: the record is appended and counted, its summary passed
\* to on_message (an Exception it raises is caught), and the state document
\* rewritten when the count reaches the cadence
AppendRecord(info, items) ==
    LET item == [id |-> MsgId(msg), from |-> info, media |-> items]
    IN /\ result_messages' = Append(result_messages, item)
       /\ processed_ids' = processed_ids \cup {item.id}
       /\ count' = count + 1
       /\ message_events' = Append(message_events, <<item.id, count + 1>>)
       /\ IF Guarded(CallbacksRaise) = "propagated"
          THEN /\ pc' = "done"
               /\ outcome' = "Exception"
               /\ UNCHANGED <<json_data, json_form, written_before,
                              progress_events>>
          ELSE PeriodicFlush(count + 1, Append(result_messages, item))

\* what a step that appends nothing leaves alone
NothingAppended ==
    UNCHANGED <<result_messages, processed_ids, count, json_data, json_form,
                written_before, outcome, progress_events, message_events>>

\* lines 523-524 and 534, into _download_one_message_media as far as its
\* first await (232-309): the sender is resolved, and a message without
\* media or with a refused attachment is appended at once
ResolveSender(sender, a) ==
    /\ pc = "sender"
    /\ LET r == _make_sender_display(sender, alias_map, alias_counter)
       IN /\ alias_map' = r.map
          /\ alias_counter' = r.counter
          /\ sender_info' = r.info
          /\ att' = a
          /\ IF ~a.media
             THEN /\ AppendRecord(r.info, <<>>)
                  /\ UNCHANGED events
             ELSE IF ShouldBlock(a, skip_dangerous)
             THEN /\ AppendRecord(r.info, <<BlockedDescriptor(a)>>)
                  /\ events' = <<"blocked">>
             ELSE /\ pc' = "acquire"
                  /\ events' = <<"start">>
                  /\ NothingAppended
    /\ UNCHANGED <<json_exists, media_files, src_len, service, signalVars,
                   progress_every, skip_dangerous, existing_messages,
                   cancelled, pos, msg, entry, workerVars, fault, loop_exit,
                   full_upto, xfer_calls, acquires, gate_cancel, sig_len,
                   sig_msg, finish_hist, gate_msg, gate_finish, rateVars>>

\* line 523: msg.get_sender() raises; nothing in the function catches it
SenderRaises ==
    /\ pc = "sender"
    /\ pc' = "done"
    /\ outcome' = "Exception"
    /\ UNCHANGED <<archiveVars, signalVars, progress_every, skip_dangerous,
                   existing_messages, processed_ids, alias_map, alias_counter,
                   result_messages, count, cancelled, pos, msg, sender_info,
                   att, entry, events, progress_events, message_events,
                   workerVars, fault, histVars, rateVars>>

\* what the steps of a transfer leave alone
TransferFrame ==
    UNCHANGED <<json_exists, src_len, service, signalVars, progress_every,
                skip_dangerous, existing_messages, alias_map, alias_counter,
                cancelled, pos, msg, sender_info, att, workerVars, fault,
                loop_exit, full_upto, gate_cancel, sig_len, sig_msg,
                finish_hist, gate_msg, gate_finish, rateVars>>

\* line 309: the limiter admits the primary transfer
AcquireSlot ==
    /\ pc = "acquire"
    /\ acquires' = acquires + 1
    /\ pc' = "transfer"
    /\ NothingAppended
    /\ UNCHANGED <<media_files, entry, xfer_calls, events>>
    /\ TransferFrame

\* a transfer that gives the message up when a signal arrived meanwhile
TransferAbortedBySignal(o) ==
    /\ pc = "transfer"
    /\ xfer_calls' = xfer_calls \cup {<<MsgId(msg), "main">>}
    /\ IF cancel_event \/ finish_requested
       THEN /\ pc' = "iter"
            /\ NothingAppended
            /\ UNCHANGED <<media_files, events>>
       ELSE IF o = "ok"
       THEN /\ media_files' = media_files \cup {<<MsgId(msg), "main">>}
            /\ AppendRecord(sender_info, <<MediaEntry(att, MsgId(msg))>>)
            /\ events' = Append(events, "complete")
       ELSE /\ AppendRecord(sender_info, <<>>)
            /\ events' = Append(events, "error")
            /\ UNCHANGED media_files
    /\ UNCHANGED <<entry, acquires>>
    /\ TransferFrame

\* a transfer whose failure drops the whole message
TransferDroppingFailedMessage(o) ==
    /\ pc = "transfer"
    /\ xfer_calls' = xfer_calls \cup {<<MsgId(msg), "main">>}
    /\ IF o = "ok"
       THEN /\ media_files' = media_files \cup {<<MsgId(msg), "main">>}
            /\ AppendRecord(sender_info, <<MediaEntry(att, MsgId(msg))>>)
            /\ events' = Append(events, "complete")
       ELSE /\ pc' = "iter"
            /\ NothingAppended
            /\ events' = Append(events, "error")
            /\ UNCHANGED media_files
    /\ UNCHANGED <<entry, acquires>>
    /\ TransferFrame

\* lines 311-359 and 384-390: msg.download_media and the checks of its
\* result.  o is what the primitive did: "ok" a regular file inside the
\* media directory, "none" no path, "raise" an exception, "outside" a path
\* that resolves outside the export directory, "symlink" a symbolic link,
\* "beside" a regular file that resolves inside the export directory but
\* not inside its media directory (line 318 passes export_dir_abs to
\* _is_safe_path), which is kept and referenced like the regular file
Transfer(o) ==
    /\ pc = "transfer"
    /\ xfer_calls' = xfer_calls \cup {<<MsgId(msg), "main">>}
    /\ LET id == MsgId(msg)
           e == MediaEntry(att, id)
           kept == IF o = "ok" THEN media_files \cup {<<id, "main">>}
                   ELSE media_files
       IN CASE o \in {"ok", "beside"} /\ e.kind = "video" /\ att.doc ->
                 /\ media_files' = kept
                 /\ entry' = e
                 /\ pc' = "thumb_acquire"
                 /\ NothingAppended
                 /\ UNCHANGED events
            [] o \in {"ok", "beside"} /\ ~(e.kind = "video" /\ att.doc) ->
                 /\ media_files' = kept
                 /\ AppendRecord(sender_info, <<e>>)
                 /\ events' = Append(events, "complete")
                 /\ UNCHANGED entry
            [] o = "symlink" ->
                 /\ AppendRecord(sender_info, <<SymlinkDescriptor(att, id)>>)
                 /\ events' = Append(events, "blocked")
                 /\ UNCHANGED <<media_files, entry>>
            [] o \in {"none", "outside"} ->
                 /\ AppendRecord(sender_info, <<>>)
                 /\ events' = Append(events, "error")
                 /\ UNCHANGED <<media_files, entry>>
            [] o = "raise" ->
                 /\ AppendRecord(sender_info, <<>>)
                 /\ UNCHANGED <<media_files, entry, events>>
    /\ UNCHANGED acquires
    /\ TransferFrame

\* a thumbnail transfer that does not wait for the limiter
ThumbAcquireWithoutAdmission ==
    /\ pc = "thumb_acquire"
    /\ pc' = "thumb_transfer"
    /\ NothingAppended
    /\ UNCHANGED <<media_files, entry, xfer_calls, events, acquires>>
    /\ TransferFrame

\* line 364: the limiter admits the thumbnail transfer
ThumbAcquire ==
    /\ pc = "thumb_acquire"
    /\ acquires' = acquires + 1
    /\ pc' = "thumb_transfer"
    /\ NothingAppended
    /\ UNCHANGED <<media_files, entry, xfer_calls, events>>
    /\ TransferFrame

\* a thumbnail transfer whose failure gives up the video as well
ThumbTransferFailingPrimary(o) ==
    /\ pc = "thumb_transfer"
    /\ xfer_calls' = xfer_calls \cup {<<MsgId(msg), "thumb">>}
    /\ IF o = "ok"
       THEN /\ media_files' = media_files \cup {<<MsgId(msg), "thumb">>}
            /\ AppendRecord(sender_info, <<WithThumb(entry, MsgId(msg))>>)
            /\ events' = Append(events, "complete")
       ELSE /\ UNCHANGED media_files
            /\ AppendRecord(sender_info, <<>>)
            /\ events' = Append(events, "error")
    /\ entry' = NoEntry
    /\ UNCHANGED acquires
    /\ TransferFrame

\* lines 366-385: client.download_file for the thumbnail; o is "ok" a safe
\* regular file, "none" no path, "raise" an exception, "unsafe" a path
\* outside the export directory or a symbolic link (removed again)
ThumbTransfer(o) ==
    /\ pc = "thumb_transfer"
    /\ xfer_calls' = xfer_calls \cup {<<MsgId(msg), "thumb">>}
    /\ IF o = "ok"
       THEN /\ media_files' = media_files \cup {<<MsgId(msg), "thumb">>}
            /\ AppendRecord(sender_info, <<WithThumb(entry, MsgId(msg))>>)
       ELSE /\ UNCHANGED media_files
            /\ AppendRecord(sender_info, <<entry>>)
    /\ events' = Append(events, "complete")
    /\ entry' = NoEntry
    /\ UNCHANGED acquires
    /\ TransferFrame

\* what the final rewrite leaves alone
FinalFrame ==
    UNCHANGED <<json_exists, media_files, src_len, service, signalVars,
                progress_every, skip_dangerous, existing_messages,
                processed_ids, alias_map, alias_counter, result_messages,
                count, cancelled, pos, msg, sender_info, att, entry, events,
                message_events, workerVars, fault, loop_exit, full_upto,
                xfer_calls, acquires, gate_cancel, sig_len, sig_msg,
                finish_hist, gate_msg, gate_finish, rateVars>>

\* a final rewrite that writes only the records appended in this run
FinalWriteOfNewRecordsOnly ==
    /\ pc = "final"
    /\ FinalFrame
    /\ Rewrite(SubSeq(result_messages, Len(existing_messages) + 1,
                      Len(result_messages)),
               "done",
               IF cancel_event /\ ~finish_requested
               THEN "CancelledError" ELSE "returned")

\* a function that returns after the loop without the rewrite of 572-573
FinalWriteSkipped ==
    /\ pc = "final"
    /\ pc' = "done"
    /\ outcome' = IF cancel_event /\ ~finish_requested
                  THEN "CancelledError" ELSE "returned"
    /\ UNCHANGED <<json_data, json_form, written_before, progress_events>>
    /\ FinalFrame

\* lines 572-585: the final rewrite, then return or CancelledError
FinalWrite ==
    /\ pc = "final"
    /\ FinalFrame
    /\ Rewrite(result_messages, "done",
               IF cancel_event /\ ~finish_requested
               THEN "CancelledError" ELSE "returned")

\* the export_state events of lines 328-340: the except clause and the
\* finally block, which reads the finish-now flag again
Closing(was_cancelled, completed_successfully) ==
    (IF was_cancelled THEN <<"cancelled">> ELSE <<>>)
    \o (IF completed_successfully \/ finish_requested
        THEN <<"completed">> ELSE <<>>)

\* a finally block that only clears the running flag
CommandEndsKeepingControls(was_cancelled, completed_successfully) ==
    /\ emitted' = emitted \o Closing(was_cancelled, completed_successfully)
    /\ export_running' = FALSE
    /\ UNCHANGED <<worker_pause_event, worker_cancel_event, finish_requested,
                   scheduled>>
    /\ UNCHANGED <<pc, target, archiveVars, full_upto, loop_exit, shelf>>

\* the command is over: lines 333-338 of the finally block
CommandEnds(was_cancelled, completed_successfully) ==
    /\ emitted' = emitted \o Closing(was_cancelled, completed_successfully)
    /\ export_running' = FALSE
    /\ worker_pause_event' = "None"
    /\ worker_cancel_event' = "None"
    /\ finish_requested' = FALSE
    \* the callbacks still scheduled are bound to the events just dropped
    /\ scheduled' = <<>>
    /\ UNCHANGED <<pc, target, archiveVars, full_upto, loop_exit, shelf>>

\* a handler that reports every ended command as completed
WorkerAfterRunAlwaysCompleted ==
    /\ pc = "done"
    /\ export_running
    /\ CommandEnds(outcome = "CancelledError", TRUE)
    /\ UNCHANGED <<pause_event, cancel_event, progress_every, skip_dangerous,
                   existing_messages, processed_ids, alias_map, alias_counter,
                   result_messages, count, cancelled, pos, msg, sender_info,
                   att, entry, outcome, events, progress_events,
                   message_events, n_targets, titles, command_queue, ui_pc,
                   returned, fault, xfer_calls, acquires, gate_cancel,
                   sig_len, sig_msg, written_before, finish_hist, gate_msg,
                   gate_finish, rateVars>>

\* Worker._cmd_export from the end of dump_dialog_to_json_and_media (through
\* _run_single_export, 447-480) to the next conversation or to the end of
\* the command: lines 316-340
WorkerAfterRun ==
    /\ pc = "done"
    /\ export_running
    /\ CASE outcome = "CancelledError" -> CommandEnds(TRUE, FALSE)
         [] outcome \in {"OSError", "Exception"} -> CommandEnds(FALSE, FALSE)
         [] outcome = "returned" /\ finish_requested ->
               CommandEnds(FALSE, TRUE)
         [] outcome = "returned" /\ ~finish_requested /\ cancel_event ->
               CommandEnds(TRUE, FALSE)
         [] outcome = "returned" /\ ~finish_requested /\ ~cancel_event
               /\ target = n_targets ->
               CommandEnds(FALSE, TRUE)
         [] outcome = "returned" /\ ~finish_requested /\ ~cancel_event
               /\ target < n_targets ->
               \* the directory of the next conversation comes into view;
               \* the one left behind is kept when a later conversation of
               \* the command names it again
               LET cur == ExportDir(titles[target])
                   nxt == ExportDir(titles[target + 1])
                   again == \E i \in (target + 1)..n_targets :
                               ExportDir(titles[i]) = cur
                   put == IF again
                          THEN [shelf EXCEPT ![cur] =
                                   [exists |-> json_exists,
                                    data |-> json_data,
                                    form |-> json_form,
                                    media |-> media_files]]
                          ELSE shelf
               IN /\ pc' = "between"
                  /\ shelf' = [put EXCEPT ![nxt] = NoArchive]
                  /\ json_exists' = put[nxt].exists
                  /\ json_data' = put[nxt].data
                  /\ json_form' = put[nxt].form
                  /\ media_files' = put[nxt].media
                  /\ full_upto' = 0
                  /\ loop_exit' = "none"
                  /\ UNCHANGED <<src_len, service, finish_requested,
                                 export_running, target, emitted,
                                 worker_pause_event, worker_cancel_event,
                                 scheduled>>
    /\ UNCHANGED <<pause_event, cancel_event, progress_every, skip_dangerous,
                   existing_messages, processed_ids, alias_map, alias_counter,
                   result_messages, count, cancelled, pos, msg, sender_info,
                   att, entry, outcome, events, progress_events,
                   message_events, n_targets, titles, command_queue, ui_pc,
                   returned, fault, xfer_calls, acquires, gate_cancel,
                   sig_len, sig_msg, written_before, finish_hist, gate_msg,
                   gate_finish, rateVars>>

----------------------------------------------------------------------------
(* The environment: the control signals, the message source, the faults *)

\* what a signal leaves alone: the run's position and everything it holds
SignalFrame ==
    UNCHANGED <<archiveVars, runVars, workerVars, fault, loop_exit, full_upto,
                xfer_calls, acquires, written_before, gate_msg, rateVars>>

\* the first cancel or finish-now of a run is recorded
NoteSignal ==
    IF sig_len = -1
    THEN /\ sig_len' = Len(result_messages)
         /\ sig_msg' = IF pc \in ProcessingPcs THEN msg ELSE 0
    ELSE UNCHANGED <<sig_len, sig_msg>>

\* pause_event.clear(), run by the event loop (Worker.request_pause, 488)
RequestPause ==
    /\ pc \in AwaitPcs
    /\ pause_event
    /\ pause_event' = FALSE
    /\ UNCHANGED <<cancel_event, finish_requested, gate_cancel, sig_len, sig_msg,
                   finish_hist, gate_finish>>
    /\ SignalFrame

\* pause_event.set(), run by the event loop (Worker.request_resume, 500, and
\* Worker.request_finish, 515)
RequestResume ==
    /\ pc \in AwaitPcs
    /\ ~pause_event
    /\ pause_event' = TRUE
    /\ gate_cancel' = -1
    /\ UNCHANGED <<cancel_event, finish_requested, sig_len, sig_msg,
                   finish_hist, gate_finish>>
    /\ SignalFrame

\* cancel_event.set() on its own, run by the event loop for a holder of the
\* event that wants the export cancelled
RequestCancel ==
    /\ pc \in AwaitPcs
    /\ ~cancel_event
    /\ cancel_event' = TRUE
    /\ gate_cancel' = IF pc = "gate_sleep" /\ ~pause_event
                      THEN Len(result_messages) ELSE gate_cancel
    /\ NoteSignal
    /\ UNCHANGED <<pause_event, finish_requested, finish_hist, gate_finish>>
    /\ SignalFrame

\* Worker.request_finish, lines 507-512: the flag is written by the UI
\* thread, at any point of the command
RequestFinish ==
    /\ Running
    /\ ~finish_requested
    /\ finish_requested' = TRUE
    /\ finish_hist' = "accepted"
    /\ gate_finish' = IF pc \in {"gate_fin", "gate_sleep"} /\ ~pause_event
                      THEN Len(result_messages) ELSE gate_finish
    /\ NoteSignal
    /\ UNCHANGED <<pause_event, cancel_event, gate_cancel>>
    /\ SignalFrame

\* the cancel_event.set that request_finish scheduled (line 513), run by the
\* event loop
FinishCancelCallback ==
    /\ pc \in AwaitPcs
    /\ finish_requested
    /\ ~cancel_event
    /\ cancel_event' = TRUE
    /\ UNCHANGED <<pause_event, finish_requested, gate_cancel, sig_len, sig_msg,
                   finish_hist, gate_finish>>
    /\ SignalFrame

\* what a method called by the UI thread leaves alone
UiFrame ==
    UNCHANGED <<archiveVars, runVars, export_running, n_targets, target,
                emitted, dialogVars, command_queue, worker_pause_event,
                worker_cancel_event, fault, loop_exit, full_upto, xfer_calls,
                acquires, written_before, gate_msg, rateVars>>

\* what a request_* method returns
Returns(method, v) == [call |-> method, value |-> v]

\* Worker.request_pause, lines 482-492, called by the UI thread: the clear
\* of the event is handed to the event loop, which runs it later.  (The
\* events the request_* methods put into the ui_queue are not recorded.)
request_pause ==
    /\ ui_pc = "idle"
    /\ Len(scheduled) < MaxScheduled
    /\ IF ~export_running \/ worker_pause_event = "None"
       THEN returned' = Returns("pause", "False") /\ UNCHANGED scheduled
       ELSE IF ~pause_event
       THEN returned' = Returns("pause", "False") /\ UNCHANGED scheduled
       ELSE /\ scheduled' = Append(scheduled, "pause.clear")
            /\ returned' = Returns("pause", "True")
    /\ UNCHANGED <<signalVars, ui_pc, gate_cancel, sig_len, sig_msg,
                   finish_hist, gate_finish>>
    /\ UiFrame

\* Worker.request_resume, lines 494-504
request_resume ==
    /\ ui_pc = "idle"
    /\ Len(scheduled) < MaxScheduled
    /\ IF ~export_running \/ worker_pause_event = "None"
       THEN returned' = Returns("resume", "False") /\ UNCHANGED scheduled
       ELSE IF pause_event
       THEN returned' = Returns("resume", "False") /\ UNCHANGED scheduled
       ELSE /\ scheduled' = Append(scheduled, "pause.set")
            /\ returned' = Returns("resume", "True")
    /\ UNCHANGED <<signalVars, ui_pc, gate_cancel, sig_len, sig_msg,
                   finish_hist, gate_finish>>
    /\ UiFrame

\* Worker.request_finish, lines 506-510: the tests
request_finish ==
    /\ ui_pc = "idle"
    /\ Len(scheduled) + 2 <= MaxScheduled
    /\ IF ~export_running \/ worker_cancel_event = "None"
       THEN returned' = Returns("finish", "False") /\ UNCHANGED ui_pc
       ELSE IF finish_requested
       THEN returned' = Returns("finish", "False") /\ UNCHANGED ui_pc
       ELSE ui_pc' = "finish_write" /\ UNCHANGED returned
    /\ UNCHANGED <<signalVars, scheduled, gate_cancel, sig_len, sig_msg,
                   finish_hist, gate_finish>>
    /\ UiFrame

\* Worker.request_finish, lines 512-520: the flag is written and the two
\* sets are handed to the event loop.  When the command has ended since the
\* tests, self._export_cancel_event is None and line 513 raises.
request_finish_set ==
    /\ ui_pc = "finish_write"
    /\ ui_pc' = "idle"
    /\ finish_requested' = TRUE
    /\ IF worker_cancel_event = "None"
       THEN /\ returned' = Returns("finish", "AttributeError")
            /\ UNCHANGED <<scheduled, finish_hist, gate_finish, sig_len,
                           sig_msg>>
       ELSE /\ returned' = Returns("finish", "True")
            /\ scheduled' = scheduled \o <<"cancel.set">>
                               \o (IF worker_pause_event = "None" THEN <<>>
                                   ELSE <<"pause.set">>)
            /\ finish_hist' = "accepted"
            /\ gate_finish' = IF pc \in {"gate_fin", "gate_sleep"}
                                 /\ ~pause_event
                              THEN Len(result_messages) ELSE gate_finish
            /\ NoteSignal
    /\ UNCHANGED <<pause_event, cancel_event, gate_cancel>>
    /\ UiFrame

\* the event loop runs the callback that was scheduled first, at a point
\* where the export coroutine is suspended
RunScheduled ==
    /\ export_running
    /\ pc \in AwaitPcs
    /\ scheduled # <<>>
    /\ scheduled' = Tail(scheduled)
    /\ CASE Head(scheduled) = "pause.clear" ->
               pause_event' = FALSE /\ UNCHANGED <<cancel_event, gate_cancel>>
         [] Head(scheduled) = "pause.set" ->
               /\ pause_event' = TRUE
               /\ gate_cancel' = -1
               /\ UNCHANGED cancel_event
         [] Head(scheduled) = "cancel.set" ->
               cancel_event' = TRUE /\ UNCHANGED <<pause_event, gate_cancel>>
    /\ UNCHANGED <<finish_requested, ui_pc, returned, sig_len, sig_msg,
                   finish_hist, gate_finish>>
    /\ UiFrame

\* App._on_exit, line 1219: the UI thread puts the stop command into the
\* Worker's queue (send_command, 105-106), whatever the Worker is doing
SendStop ==
    /\ command_queue = <<>>
    /\ pc # "stopped"
    /\ command_queue' = <<"stop">>
    /\ NoteSignal
    /\ UNCHANGED <<archiveVars, signalVars, runVars, export_running, n_targets,
                   target, emitted, dialogVars, worker_pause_event,
                   worker_cancel_event, ui_pc, returned, scheduled, fault,
                   loop_exit, full_upto, xfer_calls, acquires, gate_cancel,
                   written_before, finish_hist, gate_msg, gate_finish,
                   rateVars>>

\* Worker._thread_main, lines 124-127, and Worker._handle_stop, 138-142:
\* the thread is back at command_queue.get() (the handler of the command
\* before has returned), takes the stop command, sets the events the
\* Worker still holds and leaves its loop
HandleStop ==
    /\ command_queue # <<>>
    /\ Head(command_queue) = "stop"
    /\ ~export_running
    /\ pc \in {"idle", "done"}
    /\ command_queue' = Tail(command_queue)
    /\ cancel_event' = IF worker_cancel_event = "Event" THEN TRUE
                       ELSE cancel_event
    /\ pause_event' = IF worker_pause_event = "Event" THEN TRUE
                      ELSE pause_event
    /\ pc' = "stopped"
    /\ UNCHANGED <<archiveVars, finish_requested, progress_every,
                   skip_dangerous, existing_messages, processed_ids, alias_map,
                   alias_counter, result_messages, count, cancelled, pos, msg,
                   sender_info, att, entry, outcome, events, progress_events,
                   message_events, export_running, n_targets, target, emitted,
                   dialogVars, worker_pause_event, worker_cancel_event, ui_pc,
                   returned, scheduled, fault, histVars, rateVars>>

\* a new message is posted to the conversation
SourceGrows ==
    /\ src_len < MaxMsgs
    /\ src_len' = src_len + 1
    /\ UNCHANGED <<json_exists, json_data, json_form, media_files, service,
                   signalVars, runVars, workerVars, fault, histVars, rateVars>>

\* what a fault leaves alone
FaultFrame ==
    UNCHANGED <<signalVars, runVars, workerVars, histVars, rateVars>>

\* from now on open(json_path, "w") raises (the disk is full or read-only)
DiskFails ==
    /\ fault = "none"
    /\ pc # "crashed"
    /\ fault' = "write_raises"
    /\ UNCHANGED archiveVars
    /\ FaultFrame

\* the callbacks the next commands are given raise an Exception at every
\* call (on_progress, on_message and on_media of lines 428-430)
CallbacksFail ==
    /\ fault = "none"
    /\ pc \in {"idle", "done"}
    /\ ~export_running
    /\ fault' = "callbacks_raise"
    /\ UNCHANGED archiveVars
    /\ FaultFrame

\* the process is about to die: it will do so in the next rewrite
ArmCrash ==
    /\ fault = "none"
    /\ pc \in AwaitPcs
    /\ fault' = "crash"
    /\ UNCHANGED archiveVars
    /\ FaultFrame

\* between two commands the state document is damaged: f is "invalid" (not
\* JSON), "unreadable" (open or read fails) or "object" (JSON whose value
\* is not a list, here an object that wraps the records)
DamageDocument(f) ==
    /\ ~export_running
    /\ json_exists
    /\ json_form = "list"
    /\ json_form' = f
    /\ json_data' = IF f = "object" THEN json_data ELSE <<>>
    /\ UNCHANGED <<json_exists, media_files, src_len, service, fault>>
    /\ FaultFrame

\* the steps of the export loop and of the Worker after it, over the
\* senders and attachments the messages carry and what the transfer
\* primitive does
RunSteps(senders, atts, outcomes) ==
    \/ IterNext
    \/ Checkpoint
    \/ PostGate
    \/ \E s \in senders, a \in atts : ResolveSender(s, a)
    \/ AcquireSlot
    \/ \E o \in outcomes : Transfer(o)
    \/ FinalWrite
    \/ WorkerAfterRun
    \/ SourceGrows

\* the export loop over the given inputs: whether the archive is exported
\* again after a command, the numbers of conversations a command selects,
\* the cadences and blocking flags it is started with, and the inputs of
\* the steps
RunNext(again, lists, cadences, flags, senders, atts, outcomes) ==
    \/ \E n \in lists, pe \in cadences, sd \in flags :
          (again \/ pc = "idle") /\ CmdExport(n, pe, sd)
    \/ RunSteps(senders, atts, outcomes)

\* the steps of the pause gate and the control signals
ControlNext ==
    \/ GateFinish
    \/ GateWake
    \/ RequestPause
    \/ RequestResume
    \/ RequestCancel
    \/ RequestFinish

\* runs under every control signal, over few kinds of message
Next ==
    \/ RunNext(TRUE, {1}, {0, 2}, {TRUE}, {Sender(1, NoneStr, NoneStr)},
               {NoMedia, Photo, Doc("a.exe", "application/pdf", 10)},
               {"ok", "none"})
    \/ ControlNext

\* runs that end by exhaustion or by cancel, over every kind of sender
AliasNext ==
    \/ RunNext(TRUE, {1}, {0}, {TRUE}, SendersAll, {NoMedia, Photo}, {"ok"})
    \/ RequestCancel

\* one uninterrupted run over every kind of attachment and transfer result
MediaNext ==
    \/ RunNext(FALSE, {1}, {0}, BOOLEAN, {NoSender}, AttsAll,
               {"ok", "none", "raise", "outside", "symlink"})
    \/ ThumbAcquire
    \/ \E o \in {"ok", "none", "raise", "unsafe"} : ThumbTransfer(o)

\* runs to exhaustion over a growing source whose senders take pseudonyms,
\* or carry a name that reads like one
NumberingNext ==
    RunNext(TRUE, {1}, {0}, {TRUE},
            {Sender(u, NoneStr, NoneStr) : u \in {NoId} \cup Uids}
                \cup {Sender(1, NoneStr, UserLabel(2))},
            {Photo}, {"ok"})

\* runs to exhaustion over senders of every kind, with and without handle,
\* name and id
DisplayNext ==
    RunNext(TRUE, {1}, {0}, {TRUE}, SendersDisplay, {Photo}, {"ok"})

\* one run in which the transfer primitive returns paths of every place
PathNext ==
    \/ RunNext(FALSE, {1}, {0}, {TRUE}, {NoSender},
               {Photo, Doc("notes.txt", "application/pdf", 10),
                Attachment(TRUE, FALSE, "clip.mp4", "video/mp4", 10, FALSE)},
               {"ok", "outside", "symlink", "beside"})
    \/ ThumbAcquire
    \/ \E o \in {"ok", "unsafe"} : ThumbTransfer(o)

\* one command over up to MaxTargets conversations, with the signals the
\* Worker's request_pause, request_resume and request_finish raise
WorkerNext ==
    \/ RunNext(FALSE, 1..MaxTargets, {0}, {TRUE},
               {Sender(1, NoneStr, NoneStr)}, {NoMedia, Photo}, {"ok"})
    \/ NextTarget
    \/ GateFinish
    \/ GateWake
    \/ RequestPause
    \/ RequestResume
    \/ RequestFinish
    \/ FinishCancelCallback

\* one command over up to MaxTargets conversations, with pause, resume and
\* a cancel_event that is set on its own; finish-now is never requested
CancelNext ==
    \/ RunNext(FALSE, 1..MaxTargets, {0}, {TRUE},
               {Sender(1, NoneStr, NoneStr)}, {NoMedia, Photo}, {"ok"})
    \/ NextTarget
    \/ GateFinish
    \/ GateWake
    \/ RequestPause
    \/ RequestResume
    \/ RequestCancel

\* commands in which a write of the document or a sender resolution fails,
\* or the process dies in a rewrite
FaultNext ==
    \/ RunNext(TRUE, {1}, {0, 2}, {TRUE}, {Sender(1, NoneStr, NoneStr)},
               {NoMedia, Photo}, {"ok", "none"})
    \/ SenderRaises
    \/ DiskFails
    \/ ArmCrash

\* commands whose callbacks raise, over every cadence and kind of record
CallbackNext ==
    \/ RunNext(TRUE, {1}, {0, 1, 2}, {TRUE}, {NoSender},
               {NoMedia, Photo, Doc("a.exe", "application/pdf", 10)},
               {"ok", "none"})
    \/ CallbacksFail

\* commands over a state document that may be damaged between them
LoadNext ==
    \/ RunNext(TRUE, {1}, {0}, {TRUE},
               {Sender(1, NoneStr, NoneStr), Sender(NoId, NoneStr, NoneStr)},
               {NoMedia, Photo}, {"ok"})
    \/ \E f \in {"invalid", "unreadable", "object"} : DamageDocument(f)

\* one command, given to a Worker whose export root is empty, over up to
\* MaxTargets conversations of any of the modelled titles
TitlesNext ==
    \/ \E ts \in TitleLists : pc = "idle" /\ CmdExportOf(ts, 0, TRUE)
    \/ RunSteps({Sender(1, NoneStr, NoneStr)}, {NoMedia, Photo}, {"ok"})
    \/ NextTarget

\* commands over up to MaxTargets conversations given to a Worker that is
\* sent the stop command at some point
StopNext ==
    \/ RunNext(TRUE, 1..MaxTargets, {0}, {TRUE},
               {Sender(1, NoneStr, NoneStr)}, {NoMedia, Photo}, {"ok"})
    \/ NextTarget
    \/ SendStop
    \/ HandleStop

\* commands whose export is paused, resumed and finished through the
\* Worker's methods, or ends by a cancel or by an error
UiNext ==
    \/ RunNext(TRUE, {1}, {0}, {TRUE}, {Sender(1, NoneStr, NoneStr)},
               {Photo}, {"ok"})
    \/ GateFinish
    \/ GateWake
    \/ request_pause
    \/ request_resume
    \/ request_finish
    \/ request_finish_set
    \/ RunScheduled
    \/ RequestCancel
    \/ SenderRaises

\* a source whose items are all Message instances
InitAllMessages == Init /\ service = {}

Spec == Init /\ [][Next]_vars
SpecAlias == InitAllMessages /\ [][AliasNext]_vars
SpecMedia == InitAllMessages /\ [][MediaNext]_vars
SpecWorker == InitAllMessages /\ [][WorkerNext]_vars
SpecCancel == InitAllMessages /\ [][CancelNext]_vars
SpecFault == InitAllMessages /\ [][FaultNext]_vars
SpecLoad == InitAllMessages /\ [][LoadNext]_vars
SpecPath == InitAllMessages /\ [][PathNext]_vars
SpecNumbering == InitAllMessages /\ [][NumberingNext]_vars
SpecDisplay == InitAllMessages /\ [][DisplayNext]_vars
SpecCallback == InitAllMessages /\ [][CallbackNext]_vars
SpecTitles == InitAllMessages /\ [][TitlesNext]_vars
SpecStop == InitAllMessages /\ [][StopNext]_vars
SpecUi == InitAllMessages /\ [][UiNext]_vars

\* the steps the event loop takes without waiting for the network: the
\* polls of the pause gate (asyncio.sleep(0.1) returns), the test after the
\* gate, the final rewrite and the Worker's handling of the function's end
LoopStep ==
    \/ GateFinish
    \/ GateWake
    \/ PostGate
    \/ FinalWrite
    \/ WorkerAfterRun

\* SpecWorker with an event loop that keeps running the export coroutine
SpecWorkerLive == SpecWorker /\ WF_vars(LoopStep)

----------------------------------------------------------------------------
(* The claims about an export run *)

Last(q) == q[Len(q)]
NoDuplicateIds(recs) ==
    \A i, j \in 1..Len(recs) : i # j => recs[i].id # recs[j].id

\* the run started from K persisted records whose ids are those of the first
\* K items of the source, every item yielded was a Message instance, and
\* the loop ended because the source was exhausted
ResumedToExhaustion ==
    /\ pc = "done"
    /\ loop_exit = "exhausted"
    /\ Len(existing_messages) <= pos
    /\ \A i \in 1..Len(existing_messages) : existing_messages[i].id = MsgId(i)
    /\ service \cap (1..pos) = {}

\* C1: resume.  A run that starts from K persisted records and whose source
\* yields K+J messages, the first K with the persisted ids, ends with K+J
\* persisted records: the K old ones unchanged and in order, then one record
\* for each of the J new messages.
C1_Resume ==
    ResumedToExhaustion =>
        /\ Len(json_data) = pos
        /\ SubSeq(json_data, 1, Len(existing_messages)) = existing_messages
        /\ \A i \in 1..pos : json_data[i].id = MsgId(i)

C1_Witness ==
    /\ ResumedToExhaustion
    /\ Len(existing_messages) >= 1
    /\ pos >= Len(existing_messages) + 2

\* C2: no message id appears twice in the in-memory record sequence, nor
\* in the state document on disk, in any state of any run.
C2_NoDuplicateIds ==
    NoDuplicateIds(result_messages) /\ NoDuplicateIds(json_data)

\* a resumed run has skipped a persisted message and appended a new one
C2_Witness ==
    /\ pc = "done"
    /\ Len(existing_messages) >= 1
    /\ Len(result_messages) > Len(existing_messages)
    /\ pos > Len(result_messages) - Len(existing_messages)

\* C3: idempotence.  When an earlier run has exhausted the source at
\* position full_upto and this run exhausts the unchanged source at the same
\* position, the document it leaves is the document it found.
C3_Idempotent ==
    (pc = "done" /\ loop_exit = "exhausted" /\ pos = full_upto) =>
        json_data = existing_messages

C3_Witness ==
    /\ pc = "done"
    /\ loop_exit = "exhausted"
    /\ pos = full_upto
    /\ Len(json_data) >= 2
    /\ \E i \in 1..Len(json_data) : json_data[i].media # <<>>

\* the classifier marks the attachment of the current message dangerous
\* while blocking is enabled
DangerousAndBlocking ==
    /\ att # Unset
    /\ att.doc
    /\ skip_dangerous
    /\ _is_dangerous(att, att.fname)

\* C4: danger policy.  With blocking enabled, a message whose attachment
\* the classifier marks dangerous never reaches the limiter or a transfer
\* primitive, nothing of it is written to the media directory, and its
\* record's media list is exactly one descriptor: kind "blocked", reason
\* "dangerous-file-blocked", and the declared file name or "file".
C4_DangerPolicy ==
    DangerousAndBlocking =>
        /\ pc \notin {"acquire", "transfer", "thumb_acquire", "thumb_transfer"}
        /\ \A part \in {"main", "thumb"} :
              /\ <<MsgId(msg), part>> \notin xfer_calls
              /\ <<MsgId(msg), part>> \notin media_files
        /\ Last(result_messages).id = MsgId(msg)
        /\ Last(result_messages).media =
              << [kind |-> "blocked",
                  name |-> IF att.fname # "" THEN att.fname ELSE "file",
                  reason |-> "dangerous-file-blocked"] >>

\* an attachment with no declared name, refused for its size alone
C4_Witness ==
    /\ DangerousAndBlocking
    /\ att.fname = ""
    /\ PrefixesOf(Lower(att.mime)) \cap DANGEROUS_MIME_PREFIX = {}
    /\ Last(result_messages).media[1].name = "file"

\* the record's label is a pseudonym the registry assigned: the sender had
\* neither handle nor name
HasPseudonym(r) ==
    /\ r.from.username = NoneStr
    /\ r.from.name = NoneStr
    /\ StartsWithUser(r.from.display)

\* C7: alias stability.  Every record whose sender has the same numeric id
\* carries the same display label as every earlier record of that sender.
C7_AliasStability ==
    \A i, j \in 1..Len(result_messages) :
        (/\ i < j
         /\ result_messages[i].from.id # NoId
         /\ result_messages[i].from.id = result_messages[j].from.id)
        => result_messages[i].from.display = result_messages[j].from.display

\* C8: alias bijection.  No pseudonym is assigned to two different sender
\* identities (two numeric ids, or a numeric id and an id-less sender), and
\* no numeric id receives two different pseudonyms.
C8_AliasBijection ==
    \A i, j \in 1..Len(result_messages) :
        (HasPseudonym(result_messages[i]) /\ HasPseudonym(result_messages[j]))
        => /\ (result_messages[i].from.display = result_messages[j].from.display
                  => result_messages[i].from.id = result_messages[j].from.id)
           /\ (/\ result_messages[i].from.id # NoId
               /\ result_messages[i].from.id = result_messages[j].from.id
                  => result_messages[i].from.display
                        = result_messages[j].from.display)

C10_NoInterruption ==
    /\ sig_len >= 0 => Len(result_messages) <= sig_len + 1
    /\ (sig_msg > 0 /\ pc \notin ProcessingPcs) =>
          /\ Len(result_messages) = sig_len + 1
          /\ Last(result_messages).id = MsgId(sig_msg)
          /\ <<MsgId(sig_msg), "main">> \in media_files =>
                /\ Len(Last(result_messages).media) = 1
                /\ Last(result_messages).media[1].kind = "image"
                /\ Last(result_messages).media[1].path = MsgId(sig_msg)
          /\ pc = "done" => json_data = result_messages

\* a signal came during a transfer that then succeeded, with a further
\* message left in the source
C10_Witness ==
    /\ pc = "done"
    /\ sig_msg > 0
    /\ <<MsgId(sig_msg), "main">> \in media_files
    /\ sig_msg < src_len

----------------------------------------------------------------------------
(* The claims about the Worker's export command *)

\* the command ended, or is about to end, as a success: the function did
\* not raise, no "cancelled" was emitted, and "completed" is emitted when the
\* command ends
ReportedAsSuccess ==
    /\ pc = "done" => outcome = "returned"
    /\ \A i \in 1..Len(emitted) : emitted[i] # "cancelled"
    /\ ~export_running => emitted = <<"running", "completed">>

\* C11: finish-now is reported as success.  Once request_finish has
\* returned True, the function returns normally although the cancel event
\* is set too, the Worker emits "completed" and never "cancelled", and the
\* export of no further conversation of the list is started.
C11_FinishIsSuccess ==
    finish_hist # "none" =>
        /\ ReportedAsSuccess
        /\ finish_hist # "started_after"

\* C12: cancel without finish-now is a normal termination.  The checkpoint
\* that next reads the cancel event ends the loop, the function ends with
\* CancelledError and no other error, and the Worker emits "cancelled" and
\* not "completed".
C12_CancelIsNormalTermination ==
    cancel_event =>
        /\ pc # "gate_fin"
        /\ (pc = "post" /\ ~pause_event) => cancelled
        /\ pc \in {"final", "done"} => loop_exit \in {"cancel", "exhausted"}
        /\ pc = "done" => outcome = "CancelledError"
        /\ ~export_running => emitted = <<"running", "cancelled">>

\* cancel came in the first of two conversations with a message still
\* unread, and the command has ended
C12_Witness ==
    /\ cancel_event
    /\ ~export_running
    /\ emitted = <<"running", "cancelled">>
    /\ loop_exit = "cancel"
    /\ n_targets = 2
    /\ target = 1
    /\ pos <= src_len
    /\ Len(result_messages) < pos

----------------------------------------------------------------------------
(* The claims about persistence and failures *)

\* C13: crash safety of persistence.  When the process dies during a
\* rewrite of the state document (periodic or final), the document on disk
\* is still a valid list: the one persisted before, or the complete new one.
C13_CrashSafeRewrite ==
    pc = "crashed" =>
        /\ json_form = "list"
        /\ json_data \in {written_before, result_messages}

\* C14: whenever the loop ends because the source is exhausted or cancel or
\* finish-now was observed, the document is rewritten before the function
\* returns or raises: every record of the in-memory sequence is on disk.
C14_FinalRewrite ==
    (pc = "done" /\ loop_exit \in {"exhausted", "cancel", "finish"}) =>
        /\ json_exists
        /\ json_form = "list"
        /\ json_data = result_messages
        /\ outcome \in {"returned", "CancelledError"}

\* the run was cancelled after appending records that no periodic rewrite
\* had written
C14_Witness ==
    /\ pc = "done"
    /\ loop_exit = "cancel"
    /\ outcome = "CancelledError"
    /\ progress_every = 0
    /\ Len(result_messages) >= Len(existing_messages) + 2
    /\ json_data = result_messages

\* C15: pre-pause flush.  Whenever the run waits in the pause gate, the
\* state document holds every record appended so far.
C15_PrePauseFlush ==
    pc \in {"gate_fin", "gate_sleep"} => json_data = result_messages

\* C16: a failure of one message's sender resolution is tolerated: the
\* message is appended with an empty sender and the function does not end
\* with the exception.
C16_SenderFailureTolerated ==
    outcome = "Exception" =>
        /\ pc # "done"
        /\ MsgId(msg) \in Ids(result_messages)

\* C17: a failed transfer (the primitive raises or returns no path) omits
\* the attachment only: every message a transfer was invoked for gets its
\* record, with an empty media list when no file was kept for it (or the
\* descriptor of a refused symbolic link), and the function goes on.
C17_TransferFailureTolerated ==
    /\ \A i \in 1..MaxMsgs :
          <<MsgId(i), "main">> \in xfer_calls =>
              \/ i = msg /\ pc \in ProcessingPcs
              \/ \E k \in 1..Len(result_messages) :
                    /\ result_messages[k].id = MsgId(i)
                    /\ <<MsgId(i), "main">> \notin media_files =>
                          \/ result_messages[k].media = <<>>
                          \/ result_messages[k].media[1].kind = "blocked"
    /\ outcome \in {"none", "returned"}

\* a transfer raised, its message was appended without media, and a later
\* message was appended after it
C17_Witness ==
    /\ events = <<"start">>
    /\ pc = "iter"
    /\ Len(result_messages) >= 2
    /\ Last(result_messages).id = MsgId(msg)
    /\ Last(result_messages).media = <<>>
    /\ \E k \in 1..(Len(result_messages) - 1) :
          /\ <<result_messages[k].id, "main">> \in xfer_calls
          /\ <<result_messages[k].id, "main">> \notin media_files
          /\ result_messages[k].media = <<>>

\* C18: no attachment disappears silently.  Once the processing of an
\* attachment that emitted "start" has ended, exactly one terminal event
\* (complete, blocked or error) follows the start, and an attachment that is
\* absent from the media list has its "error" event.
C18_NoSilentLoss ==
    (pc \notin ProcessingPcs /\ events # <<>> /\ events[1] = "start") =>
        /\ Len(events) = 2
        /\ events[2] \in {"complete", "blocked", "error"}
        /\ Last(result_messages).media = <<>> => events[2] = "error"

\* a write of the document is attempted in this step
WriteAttempted ==
    \/ pc = "final" /\ pc' # pc
    \/ /\ pc \in ProcessingPcs
       /\ count' = count + 1
       /\ progress_every # 0
       /\ count' % progress_every = 0
    \/ /\ pc \in {"idle", "done"}
       /\ pc' # pc
       /\ ~json_exists

\* C19: a failure to write the state document (initial, periodic or final)
\* is not recovered: the function ends at that write with the error and
\* the document is left as it was.
C19_WriteFailurePropagates ==
    /\ [][(fault = "write_raises" /\ WriteAttempted) =>
             (pc' = "done" /\ outcome' = "OSError"
              /\ json_data' = json_data)]_vars
    /\ [](outcome = "OSError" =>
             /\ pc = "done"
             /\ fault = "write_raises")

\* the periodic write failed with a message of the source left unread
C19_Witness ==
    /\ pc = "done"
    /\ outcome = "OSError"
    /\ loop_exit = "none"
    /\ Len(result_messages) >= 2
    /\ Len(json_data) < Len(result_messages)
    /\ pos < src_len

\* C20: loading never fails the run.  When the existing document is
\* unreadable, not valid JSON or not a list, the run starts from an empty
\* record sequence, count 0, no ids and empty alias counters, and the
\* export goes on to its normal end, where the document is a list again.
C20_LoadNeverFails ==
    /\ (export_running /\ json_form # "list") =>
          /\ pc # "done"
          /\ outcome = "none"
          /\ existing_messages = <<>>
          /\ count = Len(result_messages)
          /\ Ids(result_messages) = processed_ids
          /\ pos = 0 =>
                /\ count = 0
                /\ processed_ids = {}
                /\ alias_counter = EmptyCounter
                /\ alias_map = EmptyAliasMap
    /\ (export_running /\ pc = "done") =>
          /\ outcome = "returned"
          /\ json_form = "list"
          /\ Len(json_data) = pos
          /\ \A i \in 1..Len(json_data) : json_data[i].id = MsgId(i)

\* an earlier run had written records, the document was damaged, and the
\* next run exported the whole source again
C20_Witness ==
    /\ export_running
    /\ pc = "done"
    /\ full_upto >= 1
    /\ existing_messages = <<>>
    /\ pos >= 2
    /\ Len(json_data) = pos

----------------------------------------------------------------------------
(* The claims about the record sequence and the loop *)

IsPrefix(a, b) == Len(a) <= Len(b) /\ SubSeq(b, 1, Len(a)) = a

\* a run of dump_dialog_to_json_and_media is between its load and its end
InRun == pc \notin {"idle", "done", "between", "crashed"}

\* C21: the record sequence is append-only and source-ordered.  Every step
\* of a run leaves the sequence it found as a prefix of the sequence it
\* leaves; the loaded records stay in front, verbatim and in order; the
\* records appended in the run are records of items the source yielded, in
\* the order it yielded them.
C21_AppendOnlyOrdered ==
    /\ [][InRun => IsPrefix(result_messages, result_messages')]_vars
    /\ [](/\ IsPrefix(existing_messages, result_messages)
          /\ \A k \in (Len(existing_messages) + 1)..Len(result_messages) :
                /\ \E i \in 1..pos : result_messages[k].id = MsgId(i)
                /\ \A l \in (k + 1)..Len(result_messages) :
                      result_messages[k].id < result_messages[l].id)

\* a resumed run appended two records behind a loaded one
C21_Witness ==
    /\ pc = "done"
    /\ Len(existing_messages) >= 1
    /\ Len(result_messages) >= Len(existing_messages) + 2

\* the loop is at line 520 with a message whose id is in processed_ids
AtKnownMessage ==
    /\ pc = "post"
    /\ ~cancelled
    /\ ~finish_requested
    /\ msg \notin service
    /\ MsgId(msg) \in processed_ids

\* C23: dedup skips entirely.  For a source message whose id is already in
\* the state, the loop goes on to the next item with no sender resolution,
\* no admission and no transfer, passes nothing to on_message, on_media or
\* on_progress, and leaves the record sequence, the id set, the document
\* and the alias map and counters as they were.
C23_DedupSkipsEntirely ==
    /\ [][(AtKnownMessage /\ pc' # pc) =>
             /\ pc' = "iter"
             /\ UNCHANGED <<result_messages, processed_ids, count, alias_map,
                            alias_counter, sender_info, xfer_calls, acquires,
                            events, message_events, progress_events,
                            json_data, media_files>>]_vars
    /\ [](\A i \in 1..pos :
             MsgId(i) \in Ids(existing_messages) =>
                /\ \A part \in {"main", "thumb"} :
                      <<MsgId(i), part>> \notin xfer_calls
                /\ \A n \in 1..Len(message_events) :
                      message_events[n][1] # MsgId(i)
                /\ msg = i => (pc \notin ProcessingPcs /\ events = <<>>))

\* a resumed run has just skipped a message whose persisted record holds a
\* transferred file and a pseudonym
C23_Witness ==
    /\ pc = "iter"
    /\ msg >= 1
    /\ pos = msg
    /\ \E k \in 1..Len(existing_messages) :
          /\ existing_messages[k].id = MsgId(msg)
          /\ existing_messages[k].media # <<>>
          /\ HasPseudonym(existing_messages[k])
    /\ result_messages = existing_messages
    /\ xfer_calls = {}
    /\ acquires = 0

\* C24: periodic flush.  For a cadence N > 0, the step that brings the count
\* to a multiple of N rewrites the state document with the full in-memory
\* sequence and passes the count to on_progress once; hence fewer than N
\* appended records are unpersisted at any point of the loop.
C24_PeriodicFlush ==
    /\ [][(/\ InRun
           /\ progress_every > 0
           /\ count' = count + 1
           /\ count' % progress_every = 0) =>
             /\ json_data' = result_messages'
             /\ progress_events' = Append(progress_events, count')
             /\ count' = Len(result_messages')]_vars
    /\ []((InRun /\ progress_every > 0) =>
             /\ IsPrefix(json_data, result_messages)
             /\ Len(result_messages) - Len(json_data) < progress_every)

\* the second record of a run was appended and flushed with more to come
C24_Witness ==
    /\ pc = "iter"
    /\ progress_every = 2
    /\ existing_messages = <<>>
    /\ count = 2
    /\ json_data = result_messages
    /\ progress_events = <<0, 2>>
    /\ pos < src_len

\* C25 as stated: pause is a gate.  While the pause signal is active and
\* neither cancel nor finish-now is requested, no step of the run appends a
\* record or starts a transfer.
C25_NothingWhilePauseActive ==
    [][(/\ InRun
        /\ ~pause_event
        /\ ~cancel_event
        /\ ~finish_requested) =>
          (/\ result_messages' = result_messages
           /\ xfer_calls' = xfer_calls)]_vars

\* C25, amended: the pause takes effect at the checkpoint before a message.
\* While the run waits in the pause gate no record is appended, no admission
\* is taken and no transfer is started, and the pending message stays the
\* loop's message; when the loop leaves the gate it goes on with that
\* message, whose record is in the sequence exactly once by the time the
\* loop asks for the next item (unless the message is not a Message
\* instance), or it ends on cancel or finish-now.
C25_PauseGate ==
    /\ [][(pc \in {"gate_fin", "gate_sleep"}) =>
             (/\ result_messages' = result_messages
              /\ xfer_calls' = xfer_calls
              /\ acquires' = acquires
              /\ msg' = msg
              /\ pos' = pos)]_vars
    /\ [](gate_msg > 0 =>
             /\ msg = gate_msg
             /\ pc = "final" => loop_exit \in {"cancel", "finish"}
             /\ (pc = "iter" /\ gate_msg \notin service) =>
                   Cardinality({k \in 1..Len(result_messages) :
                       result_messages[k].id = MsgId(gate_msg)}) = 1)

\* the run paused before its second message, was resumed, and has appended
\* that message's record with its transferred file
C25_Witness ==
    /\ gate_msg >= 2
    /\ pc = "iter"
    /\ pause_event
    /\ ~cancel_event
    /\ ~finish_requested
    /\ Len(result_messages) >= Len(existing_messages) + 2
    /\ Last(result_messages).id = MsgId(gate_msg)
    /\ <<MsgId(gate_msg), "main">> \in xfer_calls

\* C26: finish-now while paused.  When request_finish is accepted while the
\* run waits in the pause gate, the wait ends without a resume, no further
\* record is appended, and the command eventually ends reported as
\* completed, never as cancelled.
C26_FinishWhilePaused ==
    /\ [](gate_finish >= 0 =>
             /\ Len(result_messages) = gate_finish
             /\ pc \in {"gate_fin", "gate_sleep", "post", "final", "done"}
             /\ pc = "done" => outcome = "returned"
             /\ \A i \in 1..Len(emitted) : emitted[i] # "cancelled")
    /\ (gate_finish >= 0) ~>
          (/\ ~export_running
           /\ emitted = <<"running", "completed">>
           /\ Len(json_data) = gate_finish)

\* finish-now came in the gate after a record had been appended; the command
\* ended as completed with the pause never lifted and the pending message not
\* processed
C26_Witness ==
    /\ gate_finish >= 1
    /\ ~export_running
    /\ emitted = <<"running", "completed">>
    /\ ~pause_event
    /\ msg >= 2
    /\ MsgId(msg) \notin Ids(json_data)
    /\ Len(json_data) = gate_finish

----------------------------------------------------------------------------
(* The claims about media retrieval *)

\* the descriptors of kind image, video or file in the record sequence
FileDescriptors ==
    {d \in UNION {{result_messages[k].media[n] :
                      n \in 1..Len(result_messages[k].media)} :
                  k \in 1..Len(result_messages)} :
        d.kind \in {"image", "video", "file"}}

\* C22: every image / video / file descriptor of a record refers to a
\* transferred file that lies inside the export's media directory and is not
\* a symbolic link; a transferred file that resolves elsewhere or is a
\* symbolic link is never referenced by such a descriptor.
C22_DescriptorsInsideMediaDir ==
    \A d \in FileDescriptors : <<d.path, "main">> \in media_files

\* the part of C22 the code does keep: a file outside the export directory
\* or a symbolic link is referenced by no descriptor
C22_EscapesAndLinksRejected ==
    \A d \in FileDescriptors :
        /\ <<d.path, "main">> \in xfer_calls
        /\ \A k \in 1..Len(result_messages) :
              (result_messages[k].id = d.path) =>
                 \A n \in 1..Len(result_messages[k].media) :
                    result_messages[k].media[n].kind # "blocked"

\* C27: every invocation of a transfer primitive (the primary transfer and
\* the thumbnail transfer alike) comes after an admission by the limiter
\* taken for it, and a step that blocks an attachment as dangerous takes
\* none: the admissions of a run are its transfers, plus one while a
\* transfer is about to be invoked.
C27_TransfersAdmitted ==
    /\ [](/\ Cardinality(xfer_calls) <= acquires
          /\ acquires = Cardinality(xfer_calls)
                + (IF pc \in {"transfer", "thumb_transfer"} THEN 1 ELSE 0))
    /\ [][(xfer_calls' # xfer_calls /\ InRun) =>
             (/\ acquires = Cardinality(xfer_calls) + 1
              /\ Cardinality(xfer_calls') = Cardinality(xfer_calls) + 1
              /\ acquires' = acquires)]_vars
    /\ [][(pc = "sender" /\ events' = <<"blocked">>) =>
             (acquires' = acquires /\ xfer_calls' = xfer_calls)]_vars

\* a video and its thumbnail were transferred under two admissions, and a
\* dangerous attachment was blocked in the same run
C27_Witness ==
    /\ pc = "iter"
    /\ \E i \in 1..pos :
          {<<MsgId(i), "main">>, <<MsgId(i), "thumb">>} \subseteq xfer_calls
    /\ acquires = Cardinality(xfer_calls)
    /\ \E k \in 1..Len(result_messages) :
          /\ result_messages[k].media # <<>>
          /\ result_messages[k].media[1].kind = "blocked"
          /\ result_messages[k].media[1].reason = "dangerous-file-blocked"

NamesWithDeniedExtension == {"a.exe", "A.EXE", "data.tar.gz"}
MimesWithDeniedPrefix == {"Text/HTML; charset=utf-8", "application/x-shellscript"}

\* at least one of the three conditions of the danger policy holds
DangerExpected(a) ==
    \/ a.fname \in NamesWithDeniedExtension
    \/ a.mime \in MimesWithDeniedPrefix
    \/ a.size > MAX_FILE_SIZE

\* C29: _is_dangerous is true exactly when the declared name's last
\* extension is denylisted, or the declared MIME type starts with a
\* denylisted prefix, or the declared size is strictly greater than the
\* maximum; with blocking enabled a document is refused before its transfer
\* exactly in those cases, so a document with no declared name, a MIME type
\* that is not listed and a size equal to the maximum is not blocked.
C29_DangerClassifier ==
    (att # Unset /\ att.doc) =>
        /\ _is_dangerous(att, FilenameHint(att)) <=> DangerExpected(att)
        /\ skip_dangerous => (events = <<"blocked">> <=> DangerExpected(att))
        /\ (/\ att.fname = ""
            /\ att.mime \notin MimesWithDeniedPrefix
            /\ att.size = MAX_FILE_SIZE) => ~_is_dangerous(att, FilenameHint(att))

\* a document with no declared name, a harmless MIME type and exactly the
\* maximum size was transferred with blocking enabled
C29_Witness ==
    /\ att = Doc("", "application/pdf", MAX_FILE_SIZE)
    /\ skip_dangerous
    /\ pc = "iter"
    /\ events = <<"start", "complete">>
    /\ Last(result_messages).media[1].kind = "file"
    /\ <<MsgId(msg), "main">> \in media_files

----------------------------------------------------------------------------
(* The claims about the alias registry *)

\* the numbers of the labels User<N> the loaded records carry in a bucket:
\* senders with a numeric id (numeric = TRUE) or without an id
PersistedNumbers(numeric) ==
    {existing_messages[k].from.display.num :
        k \in {j \in 1..Len(existing_messages) :
                 /\ StartsWithUser(existing_messages[j].from.display)
                 /\ ParsesAsInt(existing_messages[j].from.display)
                 /\ (existing_messages[j].from.id # NoId) = numeric}}

\* C30: pseudonym numbers are monotonic per bucket across resume.  Every
\* pseudonym a run issues in the numeric-id bucket has the number that
\* follows the bucket's counter, which is greater than every User<N> number
\* loaded for a numeric-id sender; likewise in the no-id bucket.
C30_MonotonicPseudonyms ==
    /\ [][(pc = "sender" /\ alias_counter'.uid # alias_counter.uid) =>
             (/\ alias_counter'.uid = alias_counter.uid + 1
              /\ alias_counter'.noid = alias_counter.noid
              /\ sender_info'.id # NoId
              /\ sender_info'.display = UserLabel(alias_counter'.uid)
              /\ \A n \in PersistedNumbers(TRUE) : alias_counter'.uid > n)]_vars
    /\ [][(pc = "sender" /\ alias_counter'.noid # alias_counter.noid) =>
             (/\ alias_counter'.noid = alias_counter.noid + 1
              /\ alias_counter'.uid = alias_counter.uid
              /\ sender_info'.id = NoId
              /\ sender_info'.display = UserLabel(alias_counter'.noid)
              /\ \A n \in PersistedNumbers(FALSE) : alias_counter'.noid > n)]_vars
    /\ [](InRun =>
             /\ \A n \in PersistedNumbers(TRUE) : alias_counter.uid >= n
             /\ \A n \in PersistedNumbers(FALSE) : alias_counter.noid >= n)

\* a resumed run loaded User1 of one numeric id and has issued User2 to
\* another
C30_Witness ==
    /\ pc = "iter"
    /\ PersistedNumbers(TRUE) = {1}
    /\ Len(result_messages) > Len(existing_messages)
    /\ HasPseudonym(Last(result_messages))
    /\ Last(result_messages).from.id # NoId
    /\ Last(result_messages).from.display = UserLabel(2)
    /\ \A k \in 1..Len(existing_messages) :
          existing_messages[k].from.id # Last(result_messages).from.id

\* the sender of the record had no id, no handle and no name (a senderless
\* post is labelled "Channel")
AnonymousIdless(info) ==
    /\ info.id = NoId
    /\ info.username = NoneStr
    /\ info.name = NoneStr
    /\ info.display # Plain("Channel")

\* C31: every occurrence of an id-less sender that has neither handle nor
\* name is a new identity.  Resolving it raises the no-id counter by one and
\* labels it User<counter>, and no two such occurrences in the archive,
\* loaded or appended, carry the same pseudonym.
C31_IdlessAlwaysNew ==
    /\ [][(pc = "sender" /\ pc' # "sender" /\ AnonymousIdless(sender_info')) =>
             (/\ alias_counter'.noid = alias_counter.noid + 1
              /\ alias_counter'.uid = alias_counter.uid
              /\ alias_map' = alias_map
              /\ sender_info'.display = UserLabel(alias_counter'.noid))]_vars
    /\ [](\A i, j \in 1..Len(result_messages) :
             (/\ i < j
              /\ AnonymousIdless(result_messages[i].from)
              /\ AnonymousIdless(result_messages[j].from))
             => result_messages[i].from.display
                   # result_messages[j].from.display)

\* a resumed run loaded the record of an id-less sender labelled User1 and
\* has appended two more, labelled User2 and User3
C31_Witness ==
    /\ pc = "iter"
    /\ Len(existing_messages) = 1
    /\ AnonymousIdless(existing_messages[1].from)
    /\ existing_messages[1].from.display = UserLabel(1)
    /\ Len(result_messages) = 3
    /\ AnonymousIdless(result_messages[2].from)
    /\ result_messages[2].from.display = UserLabel(2)
    /\ AnonymousIdless(result_messages[3].from)
    /\ result_messages[3].from.display = UserLabel(3)


\* C32: display precedence.  Whatever the registry holds, the label of a
\* sender with a handle is "@handle"; without a handle it is the name when
\* there is one; without either it is the pseudonym assigned to the sender
\* (the one alias_map holds for its id when there is one, else the next of
\* its bucket); a message without sender is labelled "Channel".  Resolving
\* a sender that has a handle or a name, or a senderless message, leaves the
\* alias map and both counters unchanged.
C32_DisplayPrecedence ==
    /\ [](\A s \in SendersDisplay :
            LET r == _make_sender_display(s, alias_map, alias_counter)
                untouched == r.map = alias_map /\ r.counter = alias_counter
            IN /\ ~s.present =>
                     r.info.display = Plain("Channel") /\ untouched
               /\ (s.present /\ s.username # NoneStr) =>
                     r.info.display = AtHandle(s.username) /\ untouched
               /\ (s.present /\ s.username = NoneStr /\ s.name # NoneStr) =>
                     r.info.display = s.name /\ untouched
               /\ (s.present /\ s.username = NoneStr /\ s.name = NoneStr) =>
                     /\ StartsWithUser(r.info.display)
                     /\ s.id # NoId => r.info.display = r.map[s.id]
                     /\ (s.id # NoId /\ alias_map[s.id] # NoneStr) =>
                           r.info.display = alias_map[s.id] /\ untouched
                     /\ s.id = NoId =>
                           r.info.display = UserLabel(alias_counter.noid + 1))
    /\ [][(pc = "sender" /\ pc' # "sender") =>
             (/\ sender_info'.username # NoneStr =>
                    sender_info'.display = AtHandle(sender_info'.username)
              /\ (sender_info'.username = NoneStr
                     /\ sender_info'.name # NoneStr) =>
                    sender_info'.display = sender_info'.name
              /\ (\/ sender_info'.username # NoneStr
                  \/ sender_info'.name # NoneStr
                  \/ sender_info'.display = Plain("Channel")) =>
                    (alias_map' = alias_map /\ alias_counter' = alias_counter))]_vars

\* the archive holds the record of a senderless post and that of a sender
\* with handle and name, appended last and labelled with the handle, and
\* the registry is as it was created
C32_Witness ==
    /\ pc = "iter"
    /\ Len(result_messages) = 2
    /\ result_messages[1].from.display = Plain("Channel")
    /\ result_messages[2].from.name = Plain("Ann")
    /\ result_messages[2].from.display = AtHandle(Plain("bob"))
    /\ alias_map = EmptyAliasMap
    /\ alias_counter = EmptyCounter


----------------------------------------------------------------------------
(* The claims about the events of a run *)

\* C35: per-message summaries.  At every point of a run that loaded K
\* records, on_message has been called once for each record appended since,
\* in append order, the k-th call carrying the id of record K + k and the
\* count K + k; a message that was skipped has no summary.
C35_SummaryPerRecord ==
    /\ Len(message_events) = Len(result_messages) - Len(existing_messages)
    /\ \A k \in 1..Len(message_events) :
          message_events[k]
             = <<result_messages[Len(existing_messages) + k].id,
                 Len(existing_messages) + k>>

\* a run that loaded one record has skipped its message and appended the
\* records of the two that follow, with summaries counting 2 and 3
C35_Witness ==
    /\ pc = "iter"
    /\ Len(existing_messages) = 1
    /\ pos = 3
    /\ message_events = <<<<MsgId(2), 2>>, <<MsgId(3), 3>>>>


\* C33: an Exception raised by on_progress, on_message or on_media does not
\* abort the run.  In a run whose callbacks raise at every call no error
\* leaves the function, every call of on_message has its record in the
\* sequence, the run that exhausts the source has a record for every
\* message it was given, and the document the finished run leaves holds all the records.
C33_CallbackFailureTolerated ==
    CallbacksRaise =>
        /\ outcome \notin {"Exception", "OSError"}
        /\ Len(message_events)
              = Len(result_messages) - Len(existing_messages)
        /\ (loop_exit = "exhausted" /\ pc \in {"final", "done"}) =>
              \A i \in 1..pos : MsgId(i) \in Ids(result_messages)
        /\ (pc = "done" /\ export_running) =>
              /\ outcome = "returned"
              /\ json_data = result_messages
              /\ Last(progress_events) = Len(result_messages)

\* a run whose callbacks raised has returned after three records, with a
\* rewrite after each record; the media callback raised at the start and at
\* the completion of the last transfer
C33_Witness ==
    /\ CallbacksRaise
    /\ pc = "done"
    /\ outcome = "returned"
    /\ existing_messages = <<>>
    /\ Len(message_events) = 3
    /\ progress_events = <<0, 1, 2, 3, 3>>
    /\ events = <<"start", "complete">>
    /\ json_data = result_messages


----------------------------------------------------------------------------
(* The claims about the Worker and its conversations *)

\* the conversations of the command have directories of their own
DirectoriesDiffer ==
    \A i, j \in 1..Len(titles) :
       i # j => ExportDir(titles[i]) # ExportDir(titles[j])

\* C34: distinct conversations never share a state document.  In a command
\* given to a Worker whose export root is empty, no message that reaches the
\* test for duplicates has its id among the processed ids: every
\* conversation is exported once, so such an id could only come from the
\* records of another conversation.
C34_NoForeignDuplicate ==
    (pc = "post" /\ ~cancelled /\ ~finish_requested) =>
        MsgId(msg) \notin processed_ids

\* the same while the conversations of the command have different
\* directories
NoForeignDuplicateInOwnDirectory ==
    DirectoriesDiffer => C34_NoForeignDuplicate

\* the export of a second conversation begins with the records of the first
SecondLoadsFirst ==
    /\ target = 2
    /\ pc = "iter"
    /\ pos = 0
    /\ Len(existing_messages) = 2


\* C36: a stop command sent while an export is running cancels it.  From
\* the moment the stop command is in the Worker's queue the running export
\* records at most the message it is working on.
C36_StopCancelsRunningExport ==
    (export_running /\ command_queue # <<>> /\ sig_len # -1) =>
        Len(result_messages) <= sig_len + 1

\* the stop command never sets the cancel signal
StopNeverSetsCancel == ~cancel_event

\* the stop command is taken from the queue only when no export is running
StopHandledAfterExport ==
    [][(command_queue # <<>> /\ command_queue' = <<>>) =>
          (~export_running /\ worker_cancel_event = "None"
             /\ UNCHANGED <<cancel_event, pause_event>>)]_vars

\* an export that was sent the stop command before its first message has
\* exhausted the source, and the Worker has left its loop afterwards
StopAfterWholeExport ==
    /\ pc = "stopped"
    /\ sig_len = 0
    /\ loop_exit = "exhausted"
    /\ Len(result_messages) = 3
    /\ emitted = <<"running", "completed">>


EndedCompleted ==
    ~export_running /\ outcome = "returned" /\ loop_exit = "exhausted"
EndedFinished == ~export_running /\ loop_exit = "finish"
EndedCancelled == ~export_running /\ outcome = "CancelledError"
EndedByError == ~export_running /\ outcome = "Exception"

\* the finish-now flag is false whenever no export is running
FlagFalseWhileIdle == ~export_running => ~finish_requested

\* a request_finish that passed its tests during the export wrote the flag
\* after the command had ended
LateFinish ==
    /\ ~export_running
    /\ finish_requested
    /\ returned = Returns("finish", "AttributeError")

\* C39: resume after an accepted pause.  While the export is running, a
\* call of request_resume that follows a request_pause that returned True
\* returns True.
C39_ResumeAfterPause ==
    [][(export_running /\ worker_pause_event = "Event"
          /\ returned = Returns("pause", "True") /\ request_resume) =>
          returned'.value = "True"]_vars

\* once every scheduled callback of a request_resume that returned True has
\* run, the run is not paused
ResumedNotPaused ==
    (export_running /\ returned = Returns("resume", "True")
        /\ scheduled = <<>>) => pause_event

\* request_resume, called after request_pause had returned True, returned
\* False, and the run waits in the pause gate with nothing scheduled
ResumeRefusedRunPaused ==
    /\ export_running
    /\ returned = Returns("resume", "False")
    /\ scheduled = <<>>
    /\ ~pause_event
    /\ ~finish_requested
    /\ ~cancel_event
    /\ pc = "gate_sleep"

\* the same call when the event loop has run the scheduled clear before it
ResumeAfterAppliedPause ==
    [][(export_running /\ worker_pause_event = "Event"
          /\ returned = Returns("pause", "True") /\ scheduled = <<>>
          /\ request_resume) =>
          returned'.value = "True"]_vars


=============================================================================
